---- MODULE Spec2Model ----
(***************************************************************************)
(* Sprite-sheet frame engine: grid addressing, per-frame edit store        *)
(* (offsets, exclusions), compositing windows of the four consumers,       *)
(* chroma key, preview playback clock and GIF assembly.                    *)
(*                                                                         *)
(* One group (NodeGroup) is modelled: its SpriteConfig is `config`, its    *)
(* image dimensions are ImgW x ImgH.  Several specifications share the     *)
(* variables; each one leaves the variables it does not use unchanged.     *)
(***************************************************************************)
EXTENDS Integers, Sequences, FiniteSets

VARIABLES
    config,             \* the group's SpriteConfig (types: SpriteConfig)
    lastOp,             \* history: the frame engine's handler that ran last, <<name, a, b, c>>
    nudged,             \* history: per index, the sum of the nudges since its last reset
    edits,              \* number of edit handlers run so far
    currentFrameIndex,  \* PreviewPlayer state: currentFrameIndex
    drawn,              \* PreviewPlayer canvas: <<>> when cleared, <<i>> when frame i is drawn
    time,               \* the timestamp of the last animation tick (ms)
    gif,                \* the state of one generateGif run
    probe,              \* inputs and result of the pure function under check
    groups,             \* App state: the groups, in the key order of the groups object
    processingState,    \* App state: processingState
    savedAssets,        \* App state: savedAssets, newest first
    runs,               \* the generateGifAsset calls made so far, in call order
    batch,              \* the handleBatchGenerateGif call: its position and its locals
    timers,             \* pending setTimeout callbacks of handleExportGif
    service,            \* the operation awaiting the generative service or a decoder
    uuids,              \* number of group ids crypto.randomUUID() has issued
    retry,              \* one retryOperation call: its position, arguments and effects
    heap,               \* the objects configs are made of, by address
    configOf,           \* per group, the address of its config object
    selectedGroupId,    \* App state: selectedGroupId, 0 for null
    rendered,           \* the state of the last render, which is what handlers close over
    animation           \* PreviewPlayer: the pending animation frame request and its closure

\* the variables of the frame engine except the history of the last handler
frameVars == <<config, nudged, edits, currentFrameIndex, drawn, time, gif, probe>>
\* the variables of the App component
appVars == <<groups, processingState, savedAssets, runs, batch, timers, service, uuids>>
\* the variables of the object graph of the configs
shareVars == <<heap, configOf>>
\* the selection, the render the handlers close over, the animation request
uiVars == <<selectedGroupId, rendered, animation>>
\* the variables the specifications of the frame engine leave alone
outerVars == <<appVars, retry, shareVars, uiVars>>

vars == <<config, lastOp, nudged, edits, currentFrameIndex, drawn, time, gif, probe,
          outerVars>>

----------------------------------------------------------------------------
(* Bounds of the model *)

\* largest rows / cols explored by the addressing check
MaxGrid == 4
\* number of edit handlers run in one behaviour of SpecEdit
MaxEdits == 3
\* source image width and height, in pixels
ImgW == 4
ImgH == 4

\* rows / cols values of the groups explored by the behavioural specifications
GridDims == {1, 2}
Directions == {"row", "column"}
\* the four nudges the editors' arrow buttons issue
UnitNudges == {<<0, -1>>, <<0, 1>>, <<-1, 0>>, <<1, 0>>}

----------------------------------------------------------------------------
(* SpriteConfig *)

NoOffsets == [i \in {} |-> [x |-> 0, y |-> 0]]

\* { ...INITIAL_CONFIG, rows, cols, totalFrames }: the config a new group gets
NewConfig(rows, cols) ==
    [rows |-> rows, cols |-> cols, totalFrames |-> rows * cols, fps |-> 12,
     autoTransparent |-> TRUE, direction |-> "row",
     frameOffsets |-> NoOffsets, excludedFrames |-> <<>>]

\* config.frameOffsets?.[index] || { x: 0, y: 0 }
OffsetOf(cfg, index) ==
    IF index \in DOMAIN cfg.frameOffsets
    THEN cfg.frameOffsets[index]
    ELSE [x |-> 0, y |-> 0]

\* excludedFrames.includes(index)
Includes(seq, index) == \E k \in 1..Len(seq) : seq[k] = index

----------------------------------------------------------------------------
(* GridAddressing *)

IndexToCellColumnFirst(rows, cols, direction, index) ==
    IF direction = "column"
    THEN [row |-> index % cols, col |-> index \div cols]
    ELSE [col |-> index % cols, row |-> index \div cols]

\* let row, col; if (direction === 'column') {...} else {...}
IndexToCell(rows, cols, direction, index) ==
    IF direction = "column"
    THEN [row |-> index % rows, col |-> index \div rows]
    ELSE [col |-> index % cols, row |-> index \div cols]

\* the inverse mapping of section 4.1
CellToIndex(rows, cols, direction, cell) ==
    IF direction = "column"
    THEN cell.col * rows + cell.row
    ELSE cell.row * cols + cell.col

\* values of the variables a specification does not use
IdleGif == [pc |-> "idle"]
NoProbe == [kind |-> "none"]
\* useState<ProcessingState>({ status: 'idle', progress: 0 })
\* progress is the number progress[1] / progress[2]
IdleState == [status |-> "idle", progress |-> <<0, 1>>, error |-> ""]
\* no handleBatchGenerateGif call yet; n counts the calls
IdleBatch == [pc |-> "idle", n |-> 0, allGroups |-> <<>>, next |-> 1, completed |-> 0,
              closureGenerating |-> FALSE]
IdleService == [pc |-> "idle", kind |-> "none", captured |-> <<>>]
IdleRetry == [pc |-> "idle"]
\* nothing rendered but the empty App, no animation frame requested
NoRender == [groups |-> <<>>, selectedGroupId |-> 0]
NoAnimation == [pending |-> FALSE]

\* the App component right after mount, nothing in flight, selection aside
AppIdle ==
    /\ groups = <<>>
    /\ processingState = IdleState
    /\ savedAssets = <<>>
    /\ runs = <<>>
    /\ batch = IdleBatch
    /\ timers = 0
    /\ service = IdleService
    /\ uuids = 0

OuterIdle ==
    /\ AppIdle
    /\ retry = IdleRetry
    /\ heap = <<>>
    /\ configOf = <<>>
    /\ selectedGroupId = 0
    /\ rendered = NoRender
    /\ animation = NoAnimation

InitAddr ==
    /\ \E rows \in 1..MaxGrid, cols \in 1..MaxGrid, direction \in Directions :
         \E index \in 0..(rows * cols - 1) :
            probe = [kind |-> "addr", rows |-> rows, cols |-> cols,
                     direction |-> direction, index |-> index, cell |-> <<>>]
    /\ config = NewConfig(1, 1)
    /\ lastOp = <<"init", 0, 0, 0>>
    /\ OuterIdle
    /\ nudged = NoOffsets
    /\ edits = 0
    /\ currentFrameIndex = 0
    /\ drawn = <<>>
    /\ time = 0
    /\ gif = IdleGif

\* a consumer resolves the cell of the frame index
ResolveCell ==
    /\ probe.cell = <<>>
    /\ probe' = [probe EXCEPT !.cell =
                   <<IndexToCell(probe.rows, probe.cols, probe.direction, probe.index)>>]
    /\ UNCHANGED <<config, lastOp, nudged, edits, currentFrameIndex, drawn, time, gif, outerVars>>

NextAddr == ResolveCell

SpecAddr == InitAddr /\ [][NextAddr]_vars

\* C1: for rows, cols >= 1, either direction and index in [0, rows*cols), the
\* resolved cell lies inside the grid, cellToIndex of it is the index again, and
\* no other index of the range resolves to the same cell (a bijection).
C1_AddressingBijection ==
    probe.cell # <<>> =>
        LET c == probe.cell[1] IN
        /\ c.row \in 0..(probe.rows - 1)
        /\ c.col \in 0..(probe.cols - 1)
        /\ CellToIndex(probe.rows, probe.cols, probe.direction, c) = probe.index
        /\ \A j \in 0..(probe.rows * probe.cols - 1) :
              IndexToCell(probe.rows, probe.cols, probe.direction, j) = c
                 => j = probe.index

\* a column-major index of a non-square grid has been resolved (scenario B's direction)
C1_Witness ==
    /\ probe.cell # <<>>
    /\ probe.direction = "column"
    /\ probe.rows = 2
    /\ probe.cols = 3
    /\ probe.index = 3
    /\ probe.cell[1] = [row |-> 1, col |-> 1]

----------------------------------------------------------------------------
(* FrameEditStore: the handlers of the inline editor (SplitFrameEditor) and  *)
(* of the modal editor (FrameEditorModal), and App's config update paths     *)

\* frame indices a group of the behavioural specifications can hold
Indices == UNION {0..(r * c - 1) : r \in GridDims, c \in GridDims}

Range(seq) == {seq[k] : k \in 1..Len(seq)}

NudgeOffsetsReplacing(cfg, index, dx, dy) ==
    [j \in DOMAIN cfg.frameOffsets \cup {index} |->
        IF j = index THEN [x |-> dx, y |-> dy] ELSE cfg.frameOffsets[j]]

\* newOffsets = { ...config.frameOffsets, [index]: { x: cur.x + dx, y: cur.y + dy } }
NudgeOffsets(cfg, index, dx, dy) ==
    [j \in DOMAIN cfg.frameOffsets \cup {index} |->
        IF j = index
        THEN [x |-> OffsetOf(cfg, index).x + dx, y |-> OffsetOf(cfg, index).y + dy]
        ELSE cfg.frameOffsets[j]]

ResetOffsetsToZero(cfg, index) ==
    [j \in DOMAIN cfg.frameOffsets |->
        IF j = index THEN [x |-> 0, y |-> 0] ELSE cfg.frameOffsets[j]]

\* newOffsets = { ...config.frameOffsets }; delete newOffsets[index]
ResetOffsets(cfg, index) ==
    [j \in DOMAIN cfg.frameOffsets \ {index} |-> cfg.frameOffsets[j]]

ToggleExcludedAddOnly(excluded, index) ==
    IF Includes(excluded, index) THEN excluded ELSE Append(excluded, index)

\* includes(index) ? currentExcluded.filter(i => i !== index) : [...currentExcluded, index]
ToggleExcluded(excluded, index) ==
    IF Includes(excluded, index)
    THEN SelectSeq(excluded, LAMBDA e : e # index)
    ELSE Append(excluded, index)

\* updateConfigFromEditor / updateGroupConfig: { ...currentConfig, [key]: value }
UpdateGroupConfig(newConfig) == config' = newConfig

\* history of the nudges: the running sum per index, dropped by a reset
NudgedAfterNudge(index, dx, dy) ==
    [j \in DOMAIN nudged \cup {index} |->
        IF j = index
        THEN [x |-> (IF index \in DOMAIN nudged THEN nudged[index].x ELSE 0) + dx,
              y |-> (IF index \in DOMAIN nudged THEN nudged[index].y ELSE 0) + dy]
        ELSE nudged[j]]

EditFrame(op) ==
    /\ edits < MaxEdits
    /\ edits' = edits + 1
    /\ lastOp' = op
    /\ UNCHANGED <<currentFrameIndex, drawn, time, gif, probe, outerVars>>

\* SplitFrameEditor.handleNudge: the arrow overlay exists on frames that are not excluded
HandleNudge(index, dx, dy) ==
    /\ index < config.totalFrames
    /\ ~Includes(config.excludedFrames, index)
    /\ UpdateGroupConfig([config EXCEPT !.frameOffsets = NudgeOffsets(config, index, dx, dy)])
    /\ nudged' = NudgedAfterNudge(index, dx, dy)
    /\ EditFrame(<<"nudge", index, dx, dy>>)

\* FrameEditorModal.updateFrameOffset
UpdateFrameOffset(index, dx, dy) ==
    /\ index < config.totalFrames
    /\ UpdateGroupConfig([config EXCEPT !.frameOffsets = NudgeOffsets(config, index, dx, dy)])
    /\ nudged' = NudgedAfterNudge(index, dx, dy)
    /\ EditFrame(<<"nudge", index, dx, dy>>)

\* SplitFrameEditor.handleResetOffset: the button exists when hasOffset
HandleResetOffset(index) ==
    /\ index < config.totalFrames
    /\ ~Includes(config.excludedFrames, index)
    /\ OffsetOf(config, index) # [x |-> 0, y |-> 0]
    /\ UpdateGroupConfig([config EXCEPT !.frameOffsets = ResetOffsets(config, index)])
    /\ nudged' = [j \in DOMAIN nudged \ {index} |-> nudged[j]]
    /\ EditFrame(<<"reset", index, 0, 0>>)

\* FrameEditorModal.resetFrameOffset
ResetFrameOffset(index) ==
    /\ index < config.totalFrames
    /\ UpdateGroupConfig([config EXCEPT !.frameOffsets = ResetOffsets(config, index)])
    /\ nudged' = [j \in DOMAIN nudged \ {index} |-> nudged[j]]
    /\ EditFrame(<<"reset", index, 0, 0>>)

\* SplitFrameEditor.toggleExclusion (context menu of a frame)
ToggleExclusion(index) ==
    /\ index < config.totalFrames
    /\ UpdateGroupConfig([config EXCEPT !.excludedFrames = ToggleExcluded(config.excludedFrames, index)])
    /\ EditFrame(<<"toggle", index, 0, 0>>)
    /\ UNCHANGED nudged

\* FrameEditorModal.toggleFrameExclusion (Delete / Restore button)
ToggleFrameExclusion(index) ==
    /\ index < config.totalFrames
    /\ UpdateGroupConfig([config EXCEPT !.excludedFrames = ToggleExcluded(config.excludedFrames, index)])
    /\ EditFrame(<<"toggle", index, 0, 0>>)
    /\ UNCHANGED nudged

\* handleGridUpdate: rows, cols and totalFrames = rows * cols in one update
HandleGridUpdate(newRows, newCols) ==
    /\ UpdateGroupConfig([config EXCEPT !.rows = newRows, !.cols = newCols,
                                        !.totalFrames = newRows * newCols])
    /\ EditFrame(<<"grid", newRows, newCols, 0>>)
    /\ UNCHANGED nudged

\* the sidebar's Frames slider: min 1, max (rows || 1) * (cols || 1)
SetTotalFrames(n) ==
    /\ n \in 1..((IF config.rows = 0 THEN 1 ELSE config.rows)
                   * (IF config.cols = 0 THEN 1 ELSE config.cols))
    /\ UpdateGroupConfig([config EXCEPT !.totalFrames = n])
    /\ EditFrame(<<"frames", n, 0, 0>>)
    /\ UNCHANGED nudged

\* the Horizontal / Vertical order buttons
SetDirection(d) ==
    /\ UpdateGroupConfig([config EXCEPT !.direction = d])
    /\ EditFrame(<<"direction", 0, 0, 0>>)
    /\ UNCHANGED nudged

InitEdit ==
    /\ \E rows \in GridDims, cols \in GridDims : config = NewConfig(rows, cols)
    /\ lastOp = <<"init", 0, 0, 0>>
    /\ OuterIdle
    /\ nudged = NoOffsets
    /\ edits = 0
    /\ currentFrameIndex = 0
    /\ drawn = <<>>
    /\ time = 0
    /\ gif = IdleGif
    /\ probe = NoProbe

NextEdit ==
    \/ \E i \in Indices, n \in UnitNudges : HandleNudge(i, n[1], n[2])
    \/ \E i \in Indices, n \in UnitNudges : UpdateFrameOffset(i, n[1], n[2])
    \/ \E i \in Indices : HandleResetOffset(i)
    \/ \E i \in Indices : ResetFrameOffset(i)
    \/ \E i \in Indices : ToggleExclusion(i)
    \/ \E i \in Indices : ToggleFrameExclusion(i)
    \/ \E r \in GridDims, c \in GridDims : HandleGridUpdate(r, c)
    \/ \E n \in Indices : SetTotalFrames(n)
    \/ \E d \in Directions : SetDirection(d)

SpecEdit == InitEdit /\ [][NextEdit]_vars

----------------------------------------------------------------------------
(* Claims on the edit store *)

\* C5: a nudge adds to the stored offset: the stored offset of every index is
\* the sum of the nudges issued on it since its last reset ((0,0) and no entry
\* when there were none), so a nudge of one index leaves the others as they were.
C5_NudgesAccumulate ==
    /\ DOMAIN config.frameOffsets = DOMAIN nudged
    /\ \A i \in Indices : OffsetOf(config, i) =
          (IF i \in DOMAIN nudged THEN nudged[i] ELSE [x |-> 0, y |-> 0])

\* two nudges on one frame have accumulated while another frame holds its own offset
C5_Witness ==
    /\ lastOp[1] = "nudge"
    /\ \E i \in Indices, j \in Indices :
          /\ i # j
          /\ i \in DOMAIN config.frameOffsets
          /\ j \in DOMAIN config.frameOffsets
          /\ config.frameOffsets[i] = [x |-> 2, y |-> 0]
          /\ config.frameOffsets[j] = [x |-> 0, y |-> -1]

\* C7: a toggle of index i adds i to excludedFrames when it is absent and
\* removes it when it is present, leaving the membership of every other index;
\* toggling any index twice (also one >= totalFrames) gives back the membership
\* of every index.
C7_ToggleTwice ==
    /\ [][\A i \in Indices : lastOp' = <<"toggle", i, 0, 0>> =>
            /\ (i \in Range(config'.excludedFrames)) <=> (i \notin Range(config.excludedFrames))
            /\ \A j \in Indices \ {i} :
                  (j \in Range(config'.excludedFrames)) <=> (j \in Range(config.excludedFrames))
         ]_vars
    /\ [](\A i \in Indices :
            Range(ToggleExcluded(ToggleExcluded(config.excludedFrames, i), i))
               = Range(config.excludedFrames))

\* an index was excluded and restored again while another index stays excluded
C7_Witness ==
    /\ lastOp[1] = "toggle"
    /\ edits = 3
    /\ lastOp[2] \notin Range(config.excludedFrames)
    /\ Len(config.excludedFrames) = 1

----------------------------------------------------------------------------
(* FrameCompositor: the window of the source image each consumer shows.      *)
(* frameWidth = width / cols need not be an integer, so horizontal source    *)
(* coordinates are kept as numerators over cols and vertical ones as         *)
(* numerators over rows: the arithmetic below is the exact rational one.     *)

\* the cell of a frame in the config's grid
CellOf(cfg, index) == IndexToCell(cfg.rows, cfg.cols, cfg.direction, index)

\* generateGif: sourceX = (col * frameWidth) - offset.x, sourceY = (row * frameHeight) - offset.y
SampleOrigin(cfg, index) ==
    [x |-> CellOf(cfg, index).col * ImgW - OffsetOf(cfg, index).x * cfg.cols,
     y |-> CellOf(cfg, index).row * ImgH - OffsetOf(cfg, index).y * cfg.rows]

\* one axis of ctx.drawImage(image, sourceX, .., frameWidth, .., 0, .., frameWidth, ..):
\* the source coordinate drawn at destination coordinate v; the part of the
\* source rectangle outside the image draws nothing.  n = cols, size = width.
DrawImageAxis(n, size, origin, v) ==
    IF origin + v * n >= 0 /\ origin + v * n < size * n
    THEN <<origin + v * n>>
    ELSE <<>>

\* GIF exporter (generateGif)
ExportAxis(n, size, k, d, v) == DrawImageAxis(n, size, k * size - d * n, v)

\* PreviewPlayer.animate: sourceX = (col * frameWidth) - offset.x, then drawImage
PreviewAxis(n, size, k, d, v) == DrawImageAxis(n, size, k * size - d * n, v)

\* SplitFrameEditor: an <img> of cols*100% width whose left edge is at
\* calc(-col*100% + xOffsetPct%) of the cell, xOffsetPct = offset.x / frameWidth * 100:
\* the edge is at -col*frameWidth + offset.x source pixels, clipped by the cell box
InlineAxis(n, size, k, d, v) ==
    IF v * n - (d * n - k * size) >= 0 /\ v * n - (d * n - k * size) < size * n
    THEN <<v * n - (d * n - k * size)>>
    ELSE <<>>

\* FrameEditorModal: a frameWidth-wide box whose background is the image at
\* backgroundPosition -col*frameWidth, moved as a whole by translate(offset.x):
\* only the part of the image inside the box is painted
ModalAxis(n, size, k, d, v) ==
    IF (v - d) * n >= 0 /\ (v - d) * n < size
    THEN <<(v - d) * n + k * size>>
    ELSE <<>>

Consumers == {"inline", "modal", "preview", "export"}

ShownAxis(consumer, n, size, k, d, v) ==
    CASE consumer = "inline"  -> InlineAxis(n, size, k, d, v)
      [] consumer = "modal"   -> ModalAxis(n, size, k, d, v)
      [] consumer = "preview" -> PreviewAxis(n, size, k, d, v)
      [] consumer = "export"  -> ExportAxis(n, size, k, d, v)

\* the source pixel a consumer shows at position (vx, vy) of the frame's view,
\* <<>> where it shows none
Shown(consumer, cfg, index, vx, vy) ==
    LET sx == ShownAxis(consumer, cfg.cols, ImgW, CellOf(cfg, index).col,
                        OffsetOf(cfg, index).x, vx)
        sy == ShownAxis(consumer, cfg.rows, ImgH, CellOf(cfg, index).row,
                        OffsetOf(cfg, index).y, vy)
    IN  IF sx = <<>> \/ sy = <<>> THEN <<>> ELSE <<sx[1], sy[1]>>

\* the positions of a frame's view: 0 <= vx < frameWidth, 0 <= vy < frameHeight
ViewX(cfg) == {v \in 0..(ImgW - 1) : v * cfg.cols < ImgW}
ViewY(cfg) == {v \in 0..(ImgH - 1) : v * cfg.rows < ImgH}

\* C6: a reset of frame i removes its entry from the offset map, after which
\* the compositor's sample origin of i is the nominal one of a never nudged
\* frame, (col*cellW, row*cellH); the entries of the other frames are unchanged.
C6_ResetRestores ==
    [][\A i \in Indices : lastOp' = <<"reset", i, 0, 0>> =>
          /\ i \notin DOMAIN config'.frameOffsets
          /\ SampleOrigin(config', i) =
                [x |-> CellOf(config', i).col * ImgW, y |-> CellOf(config', i).row * ImgH]
          /\ SampleOrigin(config', i) = SampleOrigin([config' EXCEPT !.frameOffsets = NoOffsets], i)
          /\ \A j \in Indices \ {i} :
                /\ (j \in DOMAIN config'.frameOffsets) <=> (j \in DOMAIN config.frameOffsets)
                /\ OffsetOf(config', j) = OffsetOf(config, j)
      ]_vars

\* a nudged frame was reset while another frame keeps its offset
C6_Witness ==
    /\ lastOp[1] = "reset"
    /\ edits = 3
    /\ lastOp[2] \notin DOMAIN config.frameOffsets
    /\ \E j \in Indices : j \in DOMAIN config.frameOffsets /\ config.frameOffsets[j].x = 1

\* C9: for every frame and stored offset the four consumers show the same
\* window of the source image, the cellW x cellH rectangle whose origin is
\* (col*cellW - dx, row*cellH - dy): at every position of the view each of them
\* shows the source pixel at origin + position (none outside the image).
C9_ConsumersAgree ==
    \A i \in Indices : i < config.totalFrames =>
        \A vx \in ViewX(config), vy \in ViewY(config), c \in Consumers :
            Shown(c, config, i, vx, vy) =
                (LET wx == DrawImageAxis(config.cols, ImgW, SampleOrigin(config, i).x, vx)
                     wy == DrawImageAxis(config.rows, ImgH, SampleOrigin(config, i).y, vy)
                 IN  IF wx = <<>> \/ wy = <<>> THEN <<>> ELSE <<wx[1], wy[1]>>)

\* the three consumers other than the modal editor do show that window
C9_AgreeButModal ==
    \A i \in Indices : i < config.totalFrames =>
        \A vx \in ViewX(config), vy \in ViewY(config), c \in Consumers \ {"modal"} :
            Shown(c, config, i, vx, vy) =
                (LET wx == DrawImageAxis(config.cols, ImgW, SampleOrigin(config, i).x, vx)
                     wy == DrawImageAxis(config.rows, ImgH, SampleOrigin(config, i).y, vy)
                 IN  IF wx = <<>> \/ wy = <<>> THEN <<>> ELSE <<wx[1], wy[1]>>)

----------------------------------------------------------------------------
(* Frame enumeration *)

GetValidFramesUnfiltered(cfg) == [k \in 1..cfg.totalFrames |-> k - 1]

RECURSIVE GetValidFramesFrom(_, _)
GetValidFramesFrom(cfg, i) ==
    IF i >= cfg.totalFrames THEN <<>>
    ELSE (IF ~Includes(cfg.excludedFrames, i) THEN <<i>> ELSE <<>>)
            \o GetValidFramesFrom(cfg, i + 1)

\* PreviewPlayer.getValidFrames
GetValidFrames(cfg) == GetValidFramesFrom(cfg, 0)

RECURSIVE FramesToRenderFrom(_, _, _)
FramesToRenderFrom(cfg, i, limit) ==
    IF i >= limit THEN <<>>
    ELSE (IF ~Includes(cfg.excludedFrames, i) THEN <<i>> ELSE <<>>)
            \o FramesToRenderFrom(cfg, i + 1, limit)

FramesToRenderAllCells(cfg) == FramesToRenderFrom(cfg, 0, cfg.rows * cfg.cols)

\* generateGif: for (let i = 0; i < config.totalFrames; i++) if (!excludedFrames?.includes(i)) push(i)
FramesToRender(cfg) == FramesToRenderFrom(cfg, 0, cfg.totalFrames)

\* C10: the preview player and the exporter enumerate the same frames: the
\* indices in [0, totalFrames) that are not excluded, strictly ascending;
\* excluded entries >= totalFrames change nothing.
C10_SameEnumeration ==
    LET v == GetValidFrames(config)
        r == FramesToRender(config)
        inRange == [config EXCEPT !.excludedFrames =
                       SelectSeq(config.excludedFrames, LAMBDA e : e < config.totalFrames)]
    IN  /\ v = r
        /\ Range(r) = {i \in Indices : i < config.totalFrames /\ i \notin Range(config.excludedFrames)}
        /\ \A k \in 1..(Len(r) - 1) : r[k] < r[k + 1]
        /\ GetValidFrames(inRange) = v
        /\ FramesToRender(inRange) = r

\* fewer frames than cells, one excluded entry beyond totalFrames, one inside, one frame left
C10_Witness ==
    /\ config.totalFrames < config.rows * config.cols
    /\ \E e \in Range(config.excludedFrames) : e >= config.totalFrames
    /\ \E e \in Range(config.excludedFrames) : e < config.totalFrames
    /\ FramesToRender(config) # <<>>

----------------------------------------------------------------------------
(* PlaybackClock: PreviewPlayer.animate *)

\* fps values a group takes (the sidebar slider allows 1..60)
FpsValues == {1, 12, 30}
\* timestamps (ms) handed to the animation callback
TickTimes == {0, 84, 400, 500, 1000}

\* Math.floor(time / frameInterval), frameInterval = 1000 / fps, is evaluated in
\* IEEE-754 doubles: 1000 / fps is rounded first, so at some exact multiples of
\* the interval the quotient falls just below the integer and the floor is one
\* less than floor(time * fps / 1000).  For fps in FpsValues and integer times
\* up to 6000 ms these are the affected <<fps, time>> pairs (fps = 1 and 12 have
\* none): 500 / (1000 / 30) = 14.999999999999998.
FloorDefects ==
    {<<30, t>> : t \in {500, 900, 1000, 1700, 1800, 1900, 2000, 2100, 3400, 3500,
                        3600, 3700, 3800, 3900, 4000, 4100, 4200}}

\* floor(time * fps / 1000) in exact arithmetic
ExactStep(t, fps) == (t * fps) \div 1000

\* stepIndex = Math.floor(time / frameInterval) % validFrames.length
StepIndex(t, fps, n) ==
    (IF <<fps, t>> \in FloorDefects THEN ExactStep(t, fps) - 1 ELSE ExactStep(t, fps)) % n

\* actualFrameIndex = validFrames[stepIndex], <<>> when validFrames is empty
ActiveFrame(cfg, t) ==
    IF GetValidFrames(cfg) = <<>>
    THEN <<>>
    ELSE <<GetValidFrames(cfg)[StepIndex(t, cfg.fps, Len(GetValidFrames(cfg))) + 1]>>

\* one animation frame callback: animate(time)
Tick(t) ==
    /\ t >= time
    /\ time' = t
    /\ drawn' = ActiveFrame(config, t)
    /\ currentFrameIndex' =
          IF ActiveFrame(config, t) = <<>> THEN currentFrameIndex ELSE ActiveFrame(config, t)[1]
    /\ lastOp' = <<"tick", t, 0, 0>>
    /\ UNCHANGED <<config, nudged, edits, gif, probe, outerVars>>

\* the sidebar's FPS slider
SetFps(f) ==
    /\ UpdateGroupConfig([config EXCEPT !.fps = f])
    /\ EditFrame(<<"fps", f, 0, 0>>)
    /\ UNCHANGED nudged

InitPlay ==
    /\ config = NewConfig(2, 2)
    /\ lastOp = <<"init", 0, 0, 0>>
    /\ OuterIdle
    /\ nudged = NoOffsets
    /\ edits = 0
    /\ currentFrameIndex = 0
    /\ drawn = <<>>
    /\ time = 0
    /\ gif = IdleGif
    /\ probe = NoProbe

NextPlay ==
    \/ \E t \in TickTimes : Tick(t)
    \/ \E i \in Indices : ToggleExclusion(i)
    \/ \E i \in Indices : ToggleFrameExclusion(i)
    \/ \E n \in Indices : SetTotalFrames(n)
    \/ \E f \in FpsValues : SetFps(f)

SpecPlay == InitPlay /\ [][NextPlay]_vars

\* C2: the frame a tick selects is never excluded and lies in [0, totalFrames);
\* with no valid frame the tick selects none (the canvas is cleared).
C2_TickSelectsValidFrame ==
    lastOp[1] = "tick" =>
        IF \A i \in Indices : i < config.totalFrames => i \in Range(config.excludedFrames)
        THEN drawn = <<>>
        ELSE /\ drawn = <<currentFrameIndex>>
             /\ currentFrameIndex \notin Range(config.excludedFrames)
             /\ currentFrameIndex >= 0
             /\ currentFrameIndex < config.totalFrames

\* a tick skipped an excluded frame: the frame shown lies after an excluded one
C2_Witness ==
    /\ lastOp[1] = "tick"
    /\ drawn # <<>>
    /\ \E e \in Range(config.excludedFrames) : e < drawn[1]

\* a tick found every frame excluded and cleared the canvas
C2_WitnessNoFrame ==
    /\ lastOp[1] = "tick"
    /\ config.totalFrames > 0
    /\ drawn = <<>>

\* C3: with valid frames V the tick at time t selects
\* V[floor(t / (1000/fps)) mod |V|]; the selection repeats after |V|/fps
\* seconds; fps = 12, V = [0,2,3] gives frame 0 at 0 ms, 2 at 84 ms, 0 at 1000 ms.
C3_ClockFormula ==
    LET V == GetValidFrames(config)
        n == Len(V)
    IN  (lastOp[1] = "tick" /\ n > 0) =>
          /\ drawn = <<V[(ExactStep(time, config.fps) % n) + 1]>>
          /\ (1000 * n) % config.fps = 0 =>
                ActiveFrame(config, time + (1000 * n) \div config.fps) = drawn
          /\ (config.fps = 12 /\ V = <<0, 2, 3>>) =>
                /\ time = 0 => drawn = <<0>>
                /\ time = 84 => drawn = <<2>>
                /\ time = 1000 => drawn = <<0>>

\* scenario C alone: fps = 12, V = [0,2,3] shows 0 at 0 ms, 2 at 84 ms, 0 at 1000 ms
C3_ScenarioC ==
    (lastOp[1] = "tick" /\ config.fps = 12 /\ GetValidFrames(config) = <<0, 2, 3>>) =>
        /\ time = 0 => drawn = <<0>>
        /\ time = 84 => drawn = <<2>>
        /\ time = 1000 => drawn = <<0>>

----------------------------------------------------------------------------
(* PreviewPlayer's effect: the animation frame request and its closure.  The *)
(* effect depends on config and isPlaying; its cleanup cancels the pending   *)
(* request and its body requests a frame for an animate that closes over the *)
(* config of that render.  A click's render and its effects are flushed      *)
(* before the browser runs the next animation frame callback.                *)

RunEffectOnPlayChange(anim, cfg, playing) ==
    IF playing = anim.isPlaying THEN anim
    ELSE [anim EXCEPT !.pending = playing, !.config = cfg, !.isPlaying = playing]

\* return () => cancelAnimationFrame(requestRef.current), then the effect body:
\* if (isPlaying) requestRef.current = requestAnimationFrame(animate)
RunEffect(anim, cfg, playing) ==
    [anim EXCEPT !.pending = playing, !.config = cfg, !.isPlaying = playing]

\* the pending animate(t) runs on the config of its closure; with no valid frame
\* it clears the canvas and returns without requesting the next frame
AnimationFrame(t) ==
    /\ animation.pending
    /\ t >= time
    /\ time' = t
    /\ drawn' = ActiveFrame(animation.config, t)
    /\ currentFrameIndex' =
          IF ActiveFrame(animation.config, t) = <<>> THEN currentFrameIndex
          ELSE ActiveFrame(animation.config, t)[1]
    /\ animation' =
          IF ActiveFrame(animation.config, t) = <<>>
          THEN [animation EXCEPT !.pending = FALSE, !.hasStopped = TRUE]
          ELSE [animation EXCEPT !.pending = animation.isPlaying]
    /\ lastOp' = <<"tick", t, 0, 0>>
    /\ UNCHANGED <<config, nudged, edits, gif, probe, appVars, retry, shareVars,
                   selectedGroupId, rendered>>

\* toggleExclusion / toggleFrameExclusion while the player is mounted: the new
\* config re-runs the effect
PlayerToggleExclusion(index) ==
    /\ index < config.totalFrames
    /\ config' = [config EXCEPT !.excludedFrames = ToggleExcluded(config.excludedFrames, index)]
    /\ animation' = RunEffect(animation, config', animation.isPlaying)
    /\ lastOp' = <<"toggle", index, 0, 0>>
    /\ UNCHANGED <<nudged, edits, currentFrameIndex, drawn, time, gif, probe, appVars,
                   retry, shareVars, selectedGroupId, rendered>>

\* the play / pause button: setIsPlaying(!isPlaying)
TogglePlaying ==
    /\ animation' = RunEffect(animation, config, ~animation.isPlaying)
    /\ lastOp' = <<"play", 0, 0, 0>>
    /\ UNCHANGED <<config, nudged, edits, currentFrameIndex, drawn, time, gif, probe,
                   appVars, retry, shareVars, selectedGroupId, rendered>>

\* the player is mounted: useState(true), and the effect has requested a frame
InitAnim ==
    /\ config = NewConfig(2, 2)
    /\ animation = [pending |-> TRUE, config |-> config, isPlaying |-> TRUE,
                    hasStopped |-> FALSE]
    /\ lastOp = <<"init", 0, 0, 0>>
    /\ nudged = NoOffsets
    /\ edits = 0
    /\ currentFrameIndex = 0
    /\ drawn = <<>>
    /\ time = 0
    /\ gif = IdleGif
    /\ probe = NoProbe
    /\ AppIdle
    /\ retry = IdleRetry
    /\ heap = <<>>
    /\ configOf = <<>>
    /\ selectedGroupId = 0
    /\ rendered = NoRender

NextAnim ==
    \/ \E t \in TickTimes : AnimationFrame(t)
    \/ \E i \in Indices : PlayerToggleExclusion(i)
    \/ TogglePlaying

SpecAnim == InitAnim /\ [][NextAnim]_vars

\* C26: while the player is playing, the animate that is pending closes over
\* the current config, so the tick after a toggle selects from the updated
\* valid-frame list; a frame is requested whenever there is a valid frame, so
\* after a restore from the all-excluded stop the ticking resumes; and what a
\* tick has drawn is the active frame of the current list.
C26_NextTickUsesUpdatedList ==
    /\ animation.pending => (animation.config = config /\ animation.isPlaying)
    /\ (animation.isPlaying /\ GetValidFrames(config) # <<>>) => animation.pending
    /\ lastOp[1] = "tick" => drawn = ActiveFrame(config, time)

\* a tick found every frame excluded and stopped; a frame was restored and a
\* later tick displays it, the player having been playing throughout
C26_Witness ==
    /\ animation.hasStopped
    /\ animation.isPlaying
    /\ lastOp[1] = "tick"
    /\ Len(config.excludedFrames) = config.totalFrames - 1
    /\ drawn = <<currentFrameIndex>>
    /\ currentFrameIndex \notin Range(config.excludedFrames)

----------------------------------------------------------------------------
(* AssemblyPipeline: one generateGif run, started by handleExportGif through *)
(* generateGifAsset.  gif.config is the config object the run was given.     *)

NoFramesError == "No valid frames to render"

RECURSIVE SubmitFramesUnkeyed(_, _)
SubmitFramesUnkeyed(cfg, frames) ==
    IF frames = <<>> THEN <<>>
    ELSE <<[index |-> Head(frames), keyed |-> FALSE, delayFps |-> cfg.fps]>>
            \o SubmitFramesUnkeyed(cfg, Tail(frames))

RECURSIVE SubmitFrames(_, _)
\* framesToRender.forEach(index => { ...; gif.addFrame(ctx, { copy: true, delay: 1000 / fps }) })
SubmitFrames(cfg, frames) ==
    IF frames = <<>> THEN <<>>
    ELSE <<[index |-> Head(frames), keyed |-> cfg.autoTransparent, delayFps |-> cfg.fps]>>
            \o SubmitFrames(cfg, Tail(frames))

\* the calls the codec receives, in program order: one gif.addFrame per frame of
\* the forEach, then gif.render()
CodecCalls(frames) ==
    [k \in 1..(Len(frames) + 1) |-> IF k <= Len(frames) THEN "addFrame" ELSE "render"]

\* the promise executor of generateGif: canvas context, enumeration, the
\* no-frames rejection, the submissions and gif.render()
Assemble(cfg, ctxOk) ==
    IF ~ctxOk
    THEN [pc |-> "failed", config |-> cfg, error |-> "Could not create canvas context",
          frames |-> <<>>, rendered |-> FALSE, requests |-> 1, calls |-> <<>>]
    ELSE IF FramesToRender(cfg) = <<>>
    THEN [pc |-> "failed", config |-> cfg, error |-> NoFramesError,
          frames |-> <<>>, rendered |-> FALSE, requests |-> 1, calls |-> <<>>]
    ELSE [pc |-> "rendering", config |-> cfg, error |-> "",
          frames |-> SubmitFrames(cfg, FramesToRender(cfg)), rendered |-> TRUE,
          requests |-> 1, calls |-> CodecCalls(FramesToRender(cfg))]

\* generateGif is entered: const workerUrl = await getWorkerBlobUrl() issues the
\* download of gif.worker.js before anything else
StartGenerateGif ==
    /\ gif.pc = "idle"
    /\ gif' = [pc |-> "fetching", config |-> config, error |-> "",
               frames |-> <<>>, rendered |-> FALSE, requests |-> 1, calls |-> <<>>]
    /\ lastOp' = <<"export", 0, 0, 0>>
    /\ UNCHANGED <<config, nudged, edits, currentFrameIndex, drawn, time, probe, outerVars>>

\* the download fails: the await throws and generateGif rejects with that error
WorkerFetchFails ==
    /\ gif.pc = "fetching"
    /\ gif' = [gif EXCEPT !.pc = "failed", !.error = "worker download failed"]
    /\ lastOp' = <<"fetchFailed", 0, 0, 0>>
    /\ UNCHANGED <<config, nudged, edits, currentFrameIndex, drawn, time, probe, outerVars>>

\* the download succeeds and the promise executor runs to its end
WorkerFetched(ctxOk) ==
    /\ gif.pc = "fetching"
    /\ gif' = Assemble(gif.config, ctxOk)
    /\ lastOp' = <<"assemble", 0, 0, 0>>
    /\ UNCHANGED <<config, nudged, edits, currentFrameIndex, drawn, time, probe, outerVars>>

\* gif.on('finished', blob => resolve(blob))
GifFinished ==
    /\ gif.pc = "rendering"
    /\ gif' = [gif EXCEPT !.pc = "done"]
    /\ lastOp' = <<"finished", 0, 0, 0>>
    /\ UNCHANGED <<config, nudged, edits, currentFrameIndex, drawn, time, probe, outerVars>>

\* the inline editor's GRID rows input: onUpdateConfig('rows', e.target.valueAsNumber)
\* reaches handleGridUpdate(groupId, value, group.config.cols)
GridRowsInput(v) ==
    /\ UpdateGroupConfig([config EXCEPT !.rows = v, !.totalFrames = v * config.cols])
    /\ EditFrame(<<"grid", v, config.cols, 0>>)
    /\ UNCHANGED nudged

\* the sidebar's Auto-Remove Background checkbox
SetAutoTransparent(b) ==
    /\ UpdateGroupConfig([config EXCEPT !.autoTransparent = b])
    /\ EditFrame(<<"autoTransparent", 0, 0, 0>>)
    /\ UNCHANGED nudged

InitGif ==
    /\ \E cols \in GridDims : config = NewConfig(2, cols)
    /\ lastOp = <<"init", 0, 0, 0>>
    /\ OuterIdle
    /\ nudged = NoOffsets
    /\ edits = 0
    /\ currentFrameIndex = 0
    /\ drawn = <<>>
    /\ time = 0
    /\ gif = IdleGif
    /\ probe = NoProbe

NextGif ==
    \/ StartGenerateGif
    \/ WorkerFetchFails
    \/ \E ctxOk \in BOOLEAN : WorkerFetched(ctxOk)
    \/ GifFinished
    \/ \E i \in Indices : ToggleExclusion(i)
    \/ \E n \in Indices : SetTotalFrames(n)
    \/ \E v \in 0..2 : GridRowsInput(v)
    \/ \E b \in BOOLEAN : SetAutoTransparent(b)
    \/ \E f \in FpsValues : SetFps(f)

SpecGif == InitGif /\ [][NextGif]_vars

\* the run's config has no valid frame: every index below totalFrames is excluded
NoValidFrame(cfg) ==
    \A i \in Indices : i < cfg.totalFrames => i \in Range(cfg.excludedFrames)

\* C4: a run on a config without a valid frame fails with the no-frames
\* error, submits no frame and never calls render.
C4_NoFramesRejected ==
    (gif.pc \in {"failed", "rendering", "done"} /\ NoValidFrame(gif.config)) =>
        /\ gif.pc = "failed"
        /\ gif.error = NoFramesError
        /\ gif.frames = <<>>
        /\ ~gif.rendered

\* what does hold of such a run: it fails, with the no-frames error unless the
\* worker download or the canvas context failed first, submits nothing and
\* never renders
C4_NoSubmissionWithoutFrames ==
    (gif.pc \in {"failed", "rendering", "done"} /\ NoValidFrame(gif.config)) =>
        /\ gif.pc = "failed"
        /\ gif.error \in {NoFramesError, "worker download failed",
                          "Could not create canvas context"}
        /\ lastOp = <<"assemble", 0, 0, 0>> =>
              gif.error \in {NoFramesError, "Could not create canvas context"}
        /\ gif.frames = <<>>
        /\ ~gif.rendered

\* C24: an export whose config has no valid frame is aborted before any side
\* effect: the run has issued no network request and made no codec call, and
\* once it has failed its error is the no-frames message.
C24_AbortedBeforeSideEffect ==
    (gif.pc # "idle" /\ NoValidFrame(gif.config)) =>
        /\ gif.requests = 0
        /\ gif.calls = <<>>
        /\ gif.pc = "failed" => gif.error = NoFramesError

\* the valid frames of a config: the indices below totalFrames that are not excluded
ValidFrameSet(cfg) ==
    {i \in 0..(cfg.totalFrames - 1) : i \notin Range(cfg.excludedFrames)}

C11_WitnessUnkeyed ==
    /\ gif.pc = "done"
    /\ ~gif.config.autoTransparent
    /\ Len(gif.frames) > 0
    /\ ~gif.frames[1].keyed

----------------------------------------------------------------------------
(* ChromaKeyTransparency: applyChromaKey on the RGBA data of one frame *)

\* const tolerance = 20
Tolerance == 20
\* the alpha test of the loop: a < 10
AlphaThreshold == 10
\* KEY_COLOR_RGB = [255, 0, 255], written with alpha 255
KeyPixel == [r |-> 255, g |-> 0, b |-> 255, a |-> 255]

Abs(n) == IF n < 0 THEN -n ELSE n

MatchesBackgroundInclusive(p, bg) ==
    \/ /\ Abs(p.r - bg.r) <= Tolerance
       /\ Abs(p.g - bg.g) <= Tolerance
       /\ Abs(p.b - bg.b) <= Tolerance
    \/ p.a < AlphaThreshold

\* (Math.abs(r - rBg) < tolerance && Math.abs(g - gBg) < tolerance &&
\*  Math.abs(b - bBg) < tolerance) || a < 10
MatchesBackground(p, bg) ==
    \/ /\ Abs(p.r - bg.r) < Tolerance
       /\ Abs(p.g - bg.g) < Tolerance
       /\ Abs(p.b - bg.b) < Tolerance
    \/ p.a < AlphaThreshold

\* the reference is read from data[0..2] before the loop; every matching pixel
\* becomes the key colour at alpha 255, the others are left as they are
ApplyChromaKey(data) ==
    [k \in 1..Len(data) |->
        IF MatchesBackground(data[k], data[1]) THEN KeyPixel ELSE data[k]]

\* pixels around the tolerance and the alpha threshold of a reference of 100
ProbePixels ==
    [r : {80, 81, 100, 120, 121, 255}, g : {100, 119, 120}, b : {100, 120},
     a : {0, 9, 10, 255}]
ReferencePixels == [r : {100}, g : {100}, b : {100}, a : {0, 255}]

InitChroma ==
    /\ \E bg \in ReferencePixels, p \in ProbePixels :
          probe = [kind |-> "chroma", data |-> <<bg, p>>, out |-> <<>>]
    /\ config = NewConfig(1, 1)
    /\ lastOp = <<"init", 0, 0, 0>>
    /\ OuterIdle
    /\ nudged = NoOffsets
    /\ edits = 0
    /\ currentFrameIndex = 0
    /\ drawn = <<>>
    /\ time = 0
    /\ gif = IdleGif

\* generateGif calls applyChromaKey(ctx, frameWidth, frameHeight) on a frame
KeyFrame ==
    /\ probe.out = <<>>
    /\ probe' = [probe EXCEPT !.out = <<ApplyChromaKey(probe.data)>>]
    /\ UNCHANGED <<config, lastOp, nudged, edits, currentFrameIndex, drawn, time, gif, outerVars>>

NextChroma == KeyFrame

SpecChroma == InitChroma /\ [][NextChroma]_vars

\* C8 as stated: a pixel becomes the key colour at alpha 255 exactly when it is
\* within the tolerance of 20 of the top-left pixel on R, G and B, or its alpha
\* is below 10; a pixel more than the tolerance away on some channel with
\* alpha >= 10 keeps its four channels.
C8_KeyedWithinTolerance ==
    probe.out # <<>> =>
        \A k \in 1..Len(probe.data) :
            LET p == probe.data[k]
                bg == probe.data[1]
                q == probe.out[1][k]
            IN  /\ MatchesBackgroundInclusive(p, bg) => q = KeyPixel
                /\ ~MatchesBackgroundInclusive(p, bg) => q = p

\* C8 amended: a pixel becomes the key colour at alpha 255 exactly when it is
\* less than 20 away from the top-left pixel on each of R, G and B, or its
\* alpha is below 10; every other pixel - in particular every pixel more than
\* 20 away on some channel with alpha >= 10 - keeps its four channels.
C8_KeyedBelowTolerance ==
    probe.out # <<>> =>
        \A k \in 1..Len(probe.data) :
            LET p == probe.data[k]
                bg == probe.data[1]
                q == probe.out[1][k]
                below == \/ /\ Abs(p.r - bg.r) <= Tolerance - 1
                            /\ Abs(p.g - bg.g) <= Tolerance - 1
                            /\ Abs(p.b - bg.b) <= Tolerance - 1
                         \/ p.a <= AlphaThreshold - 1
                beyond == /\ \/ Abs(p.r - bg.r) > Tolerance
                             \/ Abs(p.g - bg.g) > Tolerance
                             \/ Abs(p.b - bg.b) > Tolerance
                          /\ p.a >= AlphaThreshold
            IN  /\ below => q = KeyPixel
                /\ ~below => q = p
                /\ beyond => q = p

\* an opaque pixel exactly 20 away from the reference on one channel was keyed
\* over and kept, next to the reference pixel that became the key colour
C8_Witness ==
    /\ probe.out # <<>>
    /\ probe.data[2] = [r |-> 120, g |-> 100, b |-> 100, a |-> 255]
    /\ probe.out[1][2] = probe.data[2]
    /\ probe.out[1][1] = KeyPixel

----------------------------------------------------------------------------
(* App: the groups, the asset library, ProcessingState and the export       *)
(* handlers.  A run is one generateGifAsset call; runs[r].pc is             *)
(*   "assembling"  image decode, worker download, promise executor pending  *)
(*   "rendering"   gif.render() was called, the codec is encoding           *)
(*   "resolved"    the codec finished, generateGifAsset returned            *)
(*   "rejected"    generateGifAsset threw                                   *)
(*   "stalled"     the codec's workers died; no event will ever arrive      *)

\* the ids crypto.randomUUID() gives the groups, in the order it issues them
GroupIdSet == {1, 2}
\* assembly runs started in one behaviour
MaxRuns == 2

\* INITIAL_CONFIG.rows, INITIAL_CONFIG.cols
DefaultRows == 4
DefaultCols == 4
\* genConfig.interpolationGrid initially: '3x3'
InterpolationRows == 3
InterpolationCols == 3

\* Object.keys(groups)
GroupIds(gs) == {gs[k].id : k \in 1..Len(gs)}
\* groups[groupId]
GroupById(gs, id) == gs[CHOOSE k \in 1..Len(gs) : gs[k].id = id]

\* createGroup: setGroups(prev => ({ ...prev, [groupId]: newGroup })) puts the new
\* key last; every caller passes the data URL of an image that has loaded
CreateGroupIn(gs, id, cfg) == Append(gs, [id |-> id, config |-> cfg])

\* updateGroupConfig: setGroups(prev => ({ ...prev, [groupId]: { ...prev[groupId], config } }))
\* keeps the key where it is; for a key prev does not hold, the spread of
\* undefined adds nothing and the key is added last with { config } alone
UpdateGroupConfigIn(gs, id, cfg) ==
    IF id \in GroupIds(gs)
    THEN [k \in 1..Len(gs) |-> IF gs[k].id = id THEN [gs[k] EXCEPT !.config = cfg] ELSE gs[k]]
    ELSE Append(gs, [id |-> id, config |-> cfg])

\* deleteGroup: const newGroups = { ...groups }; delete newGroups[groupId]
DeleteGroupIn(gs, id) == SelectSeq(gs, LAMBDA grp : grp.id # id)

\* generateGifAsset(group) up to its first await; closureGenerating is the value
\* of processingState.status === 'generating' in the render whose handler made
\* the call, which is all the progress callback reads of its closure
NewRun(grp, batchNo, closureGenerating) ==
    [group |-> grp.id, config |-> grp.config, batch |-> batchNo,
     closureGenerating |-> closureGenerating, pc |-> "assembling"]

InFlight == {"assembling", "rendering"}

\* runs the batch loop has still to start
BatchRemaining ==
    IF batch.pc = "running" THEN Len(batch.allGroups) - batch.next ELSE 0

\* groups a pending generation will still create
PendingGenerate ==
    IF service.pc = "pending" /\ service.kind = "generate" THEN 1 ELSE 0

\* handleFileUpload (target 'main'): img.onload creates the group
CreateGroup ==
    /\ uuids + PendingGenerate < Cardinality(GroupIdSet)
    /\ groups' = CreateGroupIn(groups, uuids + 1, NewConfig(DefaultRows, DefaultCols))
    /\ uuids' = uuids + 1
    /\ UNCHANGED <<processingState, savedAssets, runs, batch, timers, service>>
    /\ UNCHANGED <<lastOp, frameVars, retry, shareVars, uiVars>>

\* deleteGroup, from the table and grid views; the assets are not touched
DeleteGroup(g) ==
    /\ g \in GroupIds(groups)
    /\ ~(service.pc = "pending" /\ service.kind = "detect" /\ service.captured[1].id = g)
    /\ groups' = DeleteGroupIn(groups, g)
    /\ UNCHANGED <<processingState, savedAssets, runs, batch, timers, service, uuids>>
    /\ UNCHANGED <<lastOp, frameVars, retry, shareVars, uiVars>>

GridUpdatedKeepingFrames(cfg, newRows, newCols) ==
    [cfg EXCEPT !.rows = newRows, !.cols = newCols]

\* handleGridUpdate: { ...currentConfig, rows, cols, totalFrames: rows * cols }
GridUpdated(cfg, newRows, newCols) ==
    [cfg EXCEPT !.rows = newRows, !.cols = newCols, !.totalFrames = newRows * newCols]

\* the GRID rows input of a group's inline editor, which passes valueAsNumber on
\* as it is: 0 empties the group of frames, DefaultRows is the value of INITIAL_CONFIG
GroupRowsInput(g, v) ==
    /\ g \in GroupIds(groups)
    /\ LET cfg == GroupById(groups, g).config
       IN  groups' = UpdateGroupConfigIn(groups, g, GridUpdated(cfg, v, cfg.cols))
    /\ UNCHANGED <<processingState, savedAssets, runs, batch, timers, service, uuids>>
    /\ UNCHANGED <<lastOp, frameVars, retry, shareVars, uiVars>>

\* handleExportGif(groupId): no button but the sidebar's is disabled while a run
\* is in flight, and the handler itself has no guard
HandleExportGif(g) ==
    /\ Len(runs) + BatchRemaining < MaxRuns
    /\ g \in GroupIds(groups)
    /\ processingState' = [status |-> "rendering", progress |-> <<0, 1>>, error |-> ""]
    /\ runs' = Append(runs, NewRun(GroupById(groups, g), 0,
                                processingState.status = "generating"))
    /\ UNCHANGED <<groups, savedAssets, batch, timers, service, uuids>>
    /\ UNCHANGED <<lastOp, frameVars, retry, shareVars, uiVars>>

\* handleBatchGenerateGif: the snapshot of Object.values(groups), the first
\* generateGifAsset call of the loop
HandleBatchGenerateGif ==
    /\ batch.pc = "idle"
    /\ groups # <<>>
    /\ Len(runs) + Len(groups) <= MaxRuns
    /\ batch' = [pc |-> "running", n |-> batch.n + 1, allGroups |-> groups, next |-> 1,
                 completed |-> 0,
                 closureGenerating |-> processingState.status = "generating"]
    /\ processingState' = [status |-> "generating", progress |-> <<0, 1>>, error |-> ""]
    /\ runs' = Append(runs, NewRun(groups[1], batch.n + 1,
                                processingState.status = "generating"))
    /\ UNCHANGED <<groups, savedAssets, timers, service, uuids>>
    /\ UNCHANGED <<lastOp, frameVars, retry, shareVars, uiVars>>

\* the SavedAsset of a run; the file name carries the group's id, the run is history
AssetOf(r) == [type |-> "gif", name |-> runs[r].group, run |-> r]

SavedAfterAnyOutcome(r, ok) == <<AssetOf(r)>> \o savedAssets

\* generateGifAsset after await generateGif(...): setSavedAssets(prev => [newAsset, ...prev])
\* on the resolved path only, the catch rethrows
SavedAfter(r, ok) == IF ok THEN <<AssetOf(r)>> \o savedAssets ELSE savedAssets

BatchNextSameGroup(b) == b.next

\* for (const group of allGroups): the index of the next group of the loop
BatchNext(b) == b.next + 1

\* generateGifAsset settles and its caller continues: handleExportGif's try /
\* catch, or the body of the batch loop after the await, which goes on to the
\* next generateGifAsset call or leaves the loop
RunSettles(r, ok) ==
    LET run == runs[r]
        settled == [runs EXCEPT ![r].pc = IF ok THEN "resolved" ELSE "rejected"]
        completed == batch.completed + 1
        n == Len(batch.allGroups)
    IN  /\ savedAssets' = SavedAfter(r, ok)
        /\ IF run.batch = 0
           THEN /\ runs' = settled
                /\ processingState' =
                     IF ok
                     THEN [status |-> "completed", progress |-> <<100, 1>>, error |-> ""]
                     ELSE [status |-> "idle", progress |-> <<0, 1>>, error |-> "Failed"]
                /\ timers' = IF ok THEN timers + 1 ELSE timers
                /\ batch' = batch
           ELSE /\ timers' = timers
                /\ IF batch.next < n
                   THEN /\ runs' = Append(settled,
                                     NewRun(batch.allGroups[BatchNext(batch)], run.batch,
                                            batch.closureGenerating))
                        /\ batch' = [batch EXCEPT !.next = BatchNext(batch),
                                                  !.completed = completed]
                        /\ processingState' = [status |-> "generating",
                                               progress |-> <<completed * 100, n>>,
                                               error |-> ""]
                   ELSE /\ runs' = settled
                        /\ batch' = [batch EXCEPT !.pc = "idle", !.completed = completed]
                        /\ processingState' = IdleState
        /\ UNCHANGED <<groups, service, uuids>>
        /\ UNCHANGED <<lastOp, frameVars, retry, shareVars, uiVars>>

\* img.decode(), the download of gif.worker.js or getContext('2d') fails
RunRejects(r) ==
    /\ runs[r].pc = "assembling"
    /\ RunSettles(r, FALSE)

\* the promise executor of generateGif runs: it rejects for a config without a
\* valid frame, else the frames are submitted and gif.render() is called
RunAssembles(r) ==
    /\ runs[r].pc = "assembling"
    /\ IF Assemble(runs[r].config, TRUE).pc = "failed"
       THEN /\ RunSettles(r, FALSE)
               ELSE /\ runs' = [runs EXCEPT ![r].pc = "rendering"]
                    /\ UNCHANGED <<groups, processingState, savedAssets, batch, timers, service, uuids>>
            /\ UNCHANGED <<lastOp, frameVars, retry, shareVars, uiVars>>

\* gif.on('progress'): the callback generateGifAsset passed tests the
\* processingState of its closure, then setProcessingState(prev => ({ ...prev, ... }))
RunProgress(r, pct) ==
    /\ runs[r].pc = "rendering"
    /\ processingState' =
         IF ~runs[r].closureGenerating
         THEN [processingState EXCEPT !.status = "rendering", !.progress = <<pct, 1>>]
         ELSE processingState
    /\ UNCHANGED <<groups, savedAssets, runs, batch, timers, service, uuids>>
    /\ UNCHANGED <<lastOp, frameVars, retry, shareVars, uiVars>>

\* gif.on('finished'): resolve(blob)
RunFinishes(r) ==
    /\ runs[r].pc = "rendering"
    /\ RunSettles(r, TRUE)

\* the worker script is whatever the download returned (response.ok is not
\* tested) and gif.js reports no worker error: generateGif listens to 'progress'
\* and 'finished' only, so its promise stays pending
CodecStalls(r) ==
    /\ runs[r].pc = "rendering"
    /\ runs' = [runs EXCEPT ![r].pc = "stalled"]
    /\ UNCHANGED <<groups, processingState, savedAssets, batch, timers, service, uuids>>
    /\ UNCHANGED <<lastOp, frameVars, retry, shareVars, uiVars>>

\* setTimeout(() => setProcessingState({ status: 'idle', progress: 0 }), 1500)
TimerFires ==
    /\ timers > 0
    /\ timers' = timers - 1
    /\ processingState' = IdleState
    /\ UNCHANGED <<groups, savedAssets, runs, batch, service, uuids>>
    /\ UNCHANGED <<lastOp, frameVars, retry, shareVars, uiVars>>

\* the message each handler's catch block attaches
ServiceError(kind) ==
    CASE kind = "generate" -> "Interpolation Failed"
      [] kind = "detect" -> "Detection failed."
      [] kind = "decompose" -> "Failed to process GIF"

\* handleGenerateSprite, mode 'interpolated' with a start frame
StartGenerate ==
    /\ service.pc = "idle"
    /\ uuids < Cardinality(GroupIdSet)
    /\ service' = [pc |-> "pending", kind |-> "generate", captured |-> <<>>]
    /\ processingState' = [status |-> "generating", progress |-> <<10, 1>>, error |-> ""]
    /\ UNCHANGED <<groups, savedAssets, runs, batch, timers, uuids>>
    /\ UNCHANGED <<lastOp, frameVars, retry, shareVars, uiVars>>

\* handleAutoDetect on the selected group; group is the object of its closure
StartDetect(g) ==
    /\ service.pc = "idle"
    /\ g \in GroupIds(groups)
    /\ service' = [pc |-> "pending", kind |-> "detect", captured |-> <<GroupById(groups, g)>>]
    /\ processingState' = [status |-> "analyzing", progress |-> <<0, 1>>, error |-> ""]
    /\ UNCHANGED <<groups, savedAssets, runs, batch, timers, uuids>>
    /\ UNCHANGED <<lastOp, frameVars, retry, shareVars, uiVars>>

\* processGifToSpriteSheet once the first frame is decoded
StartDecompose ==
    /\ service.pc = "idle"
    /\ service' = [pc |-> "pending", kind |-> "decompose", captured |-> <<>>]
    /\ processingState' = [status |-> "analyzing", progress |-> <<0, 1>>, error |-> ""]
    /\ UNCHANGED <<groups, savedAssets, runs, batch, timers, uuids>>
    /\ UNCHANGED <<lastOp, frameVars, retry, shareVars, uiVars>>

\* the awaited call returns and the try block runs to its end
ServiceSucceeds ==
    /\ service.pc = "pending"
    /\ CASE service.kind = "generate" ->
              /\ groups' = CreateGroupIn(groups, uuids + 1,
                              NewConfig(InterpolationRows, InterpolationCols))
              /\ uuids' = uuids + 1
         [] service.kind = "detect" ->
              /\ groups' = UpdateGroupConfigIn(groups, service.captured[1].id,
                              GridUpdated(service.captured[1].config, DefaultRows, DefaultCols))
              /\ uuids' = uuids
         [] service.kind = "decompose" ->
              UNCHANGED <<groups, uuids>>
    /\ service' = IdleService
    /\ processingState' = IdleState
    /\ UNCHANGED <<savedAssets, runs, batch, timers>>
    /\ UNCHANGED <<lastOp, frameVars, retry, shareVars, uiVars>>

\* the awaited call throws: the catch block
ServiceFails ==
    /\ service.pc = "pending"
    /\ service' = IdleService
    /\ processingState' = [status |-> "idle", progress |-> <<0, 1>>,
                           error |-> ServiceError(service.kind)]
    /\ UNCHANGED <<groups, savedAssets, runs, batch, timers, uuids>>
    /\ UNCHANGED <<lastOp, frameVars, retry, shareVars, uiVars>>

\* the service returned data that is no image: the handler awaits a promise that
\* only img.onload resolves, and img.onerror is not set
GeneratedImageFailsToLoad ==
    /\ service.pc = "pending"
    /\ service.kind = "generate"
    /\ service' = [service EXCEPT !.pc = "hung"]
    /\ UNCHANGED <<groups, processingState, savedAssets, runs, batch, timers, uuids>>
    /\ UNCHANGED <<lastOp, frameVars, retry, shareVars, uiVars>>

\* progress values the codec reports
ProgressValues == {50}

InitApp ==
    /\ config = NewConfig(1, 1)
    /\ lastOp = <<"init", 0, 0, 0>>
    /\ nudged = NoOffsets
    /\ edits = 0
    /\ currentFrameIndex = 0
    /\ drawn = <<>>
    /\ time = 0
    /\ gif = IdleGif
    /\ probe = NoProbe
    /\ OuterIdle

\* what the user does with the groups and the export buttons
ExportUserStep ==
    \/ CreateGroup
    \/ \E g \in GroupIdSet : DeleteGroup(g)
    \/ \E g \in GroupIdSet, v \in {0, DefaultRows} : GroupRowsInput(g, v)
    \/ \E g \in GroupIdSet : HandleExportGif(g)
    \/ HandleBatchGenerateGif

\* what the browser and the codec do with the runs
ExportEnvStep ==
    \/ \E r \in 1..Len(runs) : RunRejects(r)
    \/ \E r \in 1..Len(runs) : RunAssembles(r)
    \/ \E r \in 1..Len(runs), pct \in ProgressValues : RunProgress(r, pct)
    \/ \E r \in 1..Len(runs) : RunFinishes(r)
    \/ \E r \in 1..Len(runs) : CodecStalls(r)
    \/ TimerFires

NextApp == ExportUserStep \/ ExportEnvStep

SpecApp == InitApp /\ [][NextApp]_vars

\* the runs that have settled: generateGifAsset returned or threw
Settled == {"resolved", "rejected"}

\* C12: every asset of the library is the 'gif' asset of a run whose codec
\* finished (the run resolved), named after that run's group; a resolved run has
\* exactly one asset and a run that was rejected (for a failure or for having
\* no valid frame), is still in flight or has stalled has none.
C12_AssetOnlyForFinishedRun ==
    /\ \A k \in 1..Len(savedAssets) :
          LET a == savedAssets[k]
          IN  /\ a.type = "gif"
              /\ a.run \in 1..Len(runs)
              /\ runs[a.run].pc = "resolved"
              /\ a.name = runs[a.run].group
              /\ Assemble(runs[a.run].config, TRUE).pc = "rendering"
    /\ \A r \in 1..Len(runs) :
          Cardinality({k \in 1..Len(savedAssets) : savedAssets[k].run = r})
             = IF runs[r].pc = "resolved" THEN 1 ELSE 0

\* one run was rejected for a config without frames, another one finished and
\* left the only asset of the library
C12_Witness ==
    /\ Len(savedAssets) = 1
    /\ \E r \in 1..Len(runs) :
          /\ runs[r].pc = "rejected"
          /\ runs[r].config.totalFrames = 0
    /\ \E r \in 1..Len(runs) : runs[r].pc = "resolved"

\* a run whose codec never finished, and no asset
C12_WitnessStalled ==
    /\ savedAssets = <<>>
    /\ \E r \in 1..Len(runs) : runs[r].pc = "stalled"

\* C13: the ProcessingState that results from the failure of a GIF export, single
\* or inside a batch, has status 'idle' and carries an error message.
C13_FailureRestoresIdle ==
    [][(\E r \in 1..Len(runs) : runs[r].pc \in InFlight /\ runs'[r].pc = "rejected")
          => (processingState'.status = "idle" /\ processingState'.error # "")]_vars

\* what holds of the single export: its failure gives { idle, 0, 'Failed' }
C13_SingleExportFailureRestoresIdle ==
    [][(\E r \in 1..Len(runs) :
           runs[r].batch = 0 /\ runs[r].pc \in InFlight /\ runs'[r].pc = "rejected")
          => processingState' = [status |-> "idle", progress |-> <<0, 1>>,
                                 error |-> "Failed"]]_vars

\* C15: no two assembly runs of the same group are in flight at the same time.
C15_OneRunPerGroup ==
    \A r1, r2 \in 1..Len(runs) :
        (runs[r1].group = runs[r2].group /\ runs[r1].pc \in InFlight
            /\ runs[r2].pc \in InFlight) => r1 = r2

\* the runs of batch number b, in the order they were started
RunsOfBatch(b) == SelectSeq(runs, LAMBDA run : run.batch = b)

\* C16: the groups of a batch are the groups present at its start, in creation
\* order (ascending id); its runs are started in that order, each one after the
\* run before it resolved or was rejected, and once the batch is over every
\* group of it was assembled exactly once.
C16_BatchSequential ==
    /\ \A b \in 1..batch.n :
          LET rs == RunsOfBatch(b)
          IN  /\ \A k \in 1..(Len(rs) - 1) : rs[k].pc \in Settled
              /\ b < batch.n => \A k \in 1..Len(rs) : rs[k].pc \in Settled
    /\ batch.n > 0 =>
          LET rs == RunsOfBatch(batch.n)
              n == Len(batch.allGroups)
          IN  /\ \A k \in 1..(n - 1) : batch.allGroups[k].id < batch.allGroups[k + 1].id
              /\ Len(rs) = batch.next
              /\ Len(rs) <= n
              /\ \A k \in 1..Len(rs) :
                    /\ rs[k].group = batch.allGroups[k].id
                    /\ rs[k].config = batch.allGroups[k].config
              /\ batch.pc = "idle" =>
                    /\ Len(rs) = n
                    /\ \A k \in 1..n : rs[k].pc \in Settled
                    /\ batch.completed = n

\* the snapshot of a batch is the groups object of the moment of the click
C16_SnapshotAtStart ==
    [][batch'.n # batch.n => batch'.allGroups = groups]_vars

\* a batch over two groups is over: the run of group 1 was rejected, then the run
\* of group 2 was started and resolved
C16_Witness ==
    /\ batch.pc = "idle"
    /\ batch.n = 1
    /\ Len(batch.allGroups) = 2
    /\ Len(runs) = 2
    /\ runs[1].group = 1
    /\ runs[1].pc = "rejected"
    /\ runs[2].group = 2
    /\ runs[2].pc = "resolved"

\* C19: the library holds no asset of a group that is not among the groups
\* (any more): deleteGroup(g) evicts the assets that were produced from g.
C19_DeleteEvictsAssets ==
    \A k \in 1..Len(savedAssets) : savedAssets[k].name \in GroupIds(groups)

\* a single export, started by handleExportGif, is in flight
SingleInFlight == \E r \in 1..Len(runs) : runs[r].batch = 0 /\ runs[r].pc \in InFlight

\* C27: while a batch runs, a codec progress notification of one of its groups
\* leaves processingState alone (a step that changes processingState only,
\* with no single export in flight and no reset timer pending, is such a
\* notification): the status stays 'generating' and the progress stays the
\* fraction the loop set.
C27_BatchIgnoresProgress ==
    [][(batch.pc = "running" /\ ~SingleInFlight /\ timers = 0
            /\ UNCHANGED <<runs, batch, timers, groups, savedAssets>>)
          => UNCHANGED processingState]_vars

\* C28: while a single export is in flight the status is neither 'idle' nor
\* 'completed'.
C28_ExportKeepsStatus ==
    SingleInFlight => processingState.status \notin {"idle", "completed"}

\* one way C28 fails: the reset timer of an export that is over fires while
\* another export is the only run in flight
C28_NoResetDuringExport ==
    [][(SingleInFlight /\ timers' < timers /\ Cardinality({r \in 1..Len(runs) : runs[r].pc \in InFlight}) = 1)
          => processingState'.status \notin {"idle", "completed"}]_vars

----------------------------------------------------------------------------
(* ProcessingState over the operations that use it: the single export and   *)
(* the operations that await the generative service or a decoder            *)

OpsUserStep ==
    \/ CreateGroup
    \/ \E g \in GroupIdSet : HandleExportGif(g)
    \/ StartGenerate
    \/ \E g \in GroupIdSet : StartDetect(g)
    \/ StartDecompose

\* what the browser, the codec and the service do
OpsEnvStep ==
    \/ \E r \in 1..Len(runs) : RunRejects(r)
    \/ \E r \in 1..Len(runs) : RunAssembles(r)
    \/ \E r \in 1..Len(runs), pct \in ProgressValues : RunProgress(r, pct)
    \/ \E r \in 1..Len(runs) : RunFinishes(r)
    \/ \E r \in 1..Len(runs) : CodecStalls(r)
    \/ TimerFires
    \/ ServiceSucceeds
    \/ ServiceFails
    \/ GeneratedImageFailsToLoad

NextOps == OpsUserStep \/ OpsEnvStep

\* every pending promise and timer is served in the end; what the user does is
\* up to the user
SpecOps == InitApp /\ [][NextOps]_vars /\ WF_vars(OpsEnvStep)

\* C14: whenever the status is not 'idle' it is 'idle' again later.
C14_EventuallyIdle ==
    (processingState.status # "idle") ~> (processingState.status = "idle")

\* what holds: the status comes back to 'idle' unless a run's codec has stalled
\* or the image of a generation never loads
C14_IdleUnlessHung ==
    (processingState.status # "idle") ~>
        \/ processingState.status = "idle"
        \/ \E r \in 1..Len(runs) : runs[r].pc = "stalled"
        \/ service.pc = "hung"

\* what holds of the operations on the service and the decoders: a failure gives
\* 'idle' with the handler's message
C13_ServiceFailureRestoresIdle ==
    [][(service.pc = "pending" /\ service'.pc = "idle"
            /\ processingState'.error # "")
          => (processingState'.status = "idle"
                /\ processingState'.error = ServiceError(service.kind))]_vars

----------------------------------------------------------------------------
(* retryOperation (geminiService): one call with the default arguments, as   *)
(* every caller makes it.  An error is its status, its code and whether its  *)
(* message contains 'overloaded'; 0 stands for a field that is not set.      *)

\* retries = 3, delay = 1000
DefaultRetries == 3
DefaultDelay == 1000

\* errors the operation throws: the five transient forms and two others
OperationErrors ==
    {[status |-> 503, code |-> 0, overloaded |-> FALSE],
     [status |-> 0, code |-> 503, overloaded |-> FALSE],
     [status |-> 500, code |-> 0, overloaded |-> FALSE],
     [status |-> 0, code |-> 500, overloaded |-> FALSE],
     [status |-> 0, code |-> 0, overloaded |-> TRUE],
     [status |-> 400, code |-> 0, overloaded |-> FALSE],
     [status |-> 0, code |-> 0, overloaded |-> FALSE]}

\* error.status === 503 || error.code === 503 || error.status === 500 ||
\* error.code === 500 || (error.message && error.message.includes('overloaded'))
IsTransient(error) ==
    \/ error.status = 503
    \/ error.code = 503
    \/ error.status = 500
    \/ error.code = 500
    \/ error.overloaded

ShouldRetryWhileLeft(retries, error) == retries > 0

\* if (retries > 0 && isTransient)
ShouldRetry(retries, error) == retries > 0 /\ IsTransient(error)

NextDelayConstant(delay) == delay

\* retryOperation(operation, retries - 1, delay * 2)
NextDelay(delay) == delay * 2

\* a caller calls retryOperation(operation): the first await operation() is pending
InitRetry ==
    /\ retry = [pc |-> "calling", retries |-> DefaultRetries, delay |-> DefaultDelay,
                calls |-> 1, waits |-> <<>>, errors |-> <<>>]
    /\ config = NewConfig(1, 1)
    /\ lastOp = <<"init", 0, 0, 0>>
    /\ nudged = NoOffsets
    /\ edits = 0
    /\ currentFrameIndex = 0
    /\ drawn = <<>>
    /\ time = 0
    /\ gif = IdleGif
    /\ probe = NoProbe
    /\ AppIdle
    /\ heap = <<>>
    /\ configOf = <<>>
    /\ selectedGroupId = 0
    /\ rendered = NoRender
    /\ animation = NoAnimation

\* return await operation()
OperationReturns ==
    /\ retry.pc = "calling"
    /\ retry' = [retry EXCEPT !.pc = "returned"]
    /\ UNCHANGED <<lastOp, frameVars, appVars, shareVars, uiVars>>

\* operation() throws: the catch block either sleeps or rethrows
OperationThrows(error) ==
    /\ retry.pc = "calling"
    /\ retry' =
         IF ShouldRetry(retry.retries, error)
         THEN [retry EXCEPT !.pc = "sleeping",
                            !.errors = Append(@, error),
                            !.waits = Append(@, retry.delay)]
         ELSE [retry EXCEPT !.pc = "thrown", !.errors = Append(@, error)]
    /\ UNCHANGED <<lastOp, frameVars, appVars, shareVars, uiVars>>

\* await sleep(delay) is over: return retryOperation(operation, retries - 1, delay * 2)
SleepEnds ==
    /\ retry.pc = "sleeping"
    /\ retry' = [retry EXCEPT !.pc = "calling", !.retries = @ - 1,
                              !.delay = NextDelay(@), !.calls = @ + 1]
    /\ UNCHANGED <<lastOp, frameVars, appVars, shareVars, uiVars>>

NextRetry ==
    \/ OperationReturns
    \/ \E error \in OperationErrors : OperationThrows(error)
    \/ SleepEnds

SpecRetry == InitRetry /\ [][NextRetry]_vars

RECURSIVE Pow2(_)
Pow2(n) == IF n = 0 THEN 1 ELSE 2 * Pow2(n - 1)

\* what C17 and its amendment share: the waits are 1000 ms, then twice the wait
\* before, one after each failed attempt that is retried; every error that was
\* retried is transient; the call throws the last error of the operation and
\* returns on the first success, after which nothing more is invoked
RetrySchedule ==
    /\ \A k \in 1..Len(retry.waits) : retry.waits[k] = 1000 * Pow2(k - 1)
    /\ \A k \in 1..Len(retry.waits) : IsTransient(retry.errors[k])
    /\ retry.pc = "calling" => (Len(retry.errors) = retry.calls - 1
                                   /\ Len(retry.waits) = retry.calls - 1)
    /\ retry.pc = "sleeping" => (Len(retry.errors) = retry.calls
                                    /\ Len(retry.waits) = retry.calls)
    /\ retry.pc = "returned" => (Len(retry.errors) = retry.calls - 1
                                    /\ Len(retry.waits) = retry.calls - 1)
    /\ retry.pc = "thrown" => (Len(retry.errors) = retry.calls
                                  /\ Len(retry.waits) = retry.calls - 1)

\* C17 as stated: the operation is invoked at most 3 times in total, with the
\* waits 1000 ms, 2000 ms, ... between the attempts, and the call ends by
\* throwing the last error or returning the first success.
C17_AtMostThreeAttempts ==
    /\ retry.calls <= 3
    /\ RetrySchedule

\* C17 amended: the operation is invoked at most 4 times in total, the first
\* attempt and at most 3 retries, with the waits 1000, 2000 and 4000 ms before
\* the retries; after 4 transient failures the last error is thrown; a
\* success is returned and nothing more is invoked.
C17_AtMostThreeRetries ==
    /\ retry.calls <= DefaultRetries + 1
    /\ Len(retry.waits) <= DefaultRetries
    /\ RetrySchedule
    /\ (retry.pc = "thrown" /\ IsTransient(retry.errors[Len(retry.errors)]))
          => (retry.calls = DefaultRetries + 1 /\ retry.waits = <<1000, 2000, 4000>>)

\* four transient failures in a row: the fourth invocation's error was thrown
\* after waits of 1000, 2000 and 4000 ms
C17_Witness ==
    /\ retry.pc = "thrown"
    /\ retry.calls = 4
    /\ retry.waits = <<1000, 2000, 4000>>
    /\ IsTransient(retry.errors[4])

\* a success on the second attempt, after one wait of 1000 ms
C17_WitnessSuccess ==
    /\ retry.pc = "returned"
    /\ retry.calls = 2
    /\ retry.waits = <<1000>>

\* C18: once the operation has failed with a non-transient error, that error
\* is thrown by the (inner) retryOperation call after its one invocation: no
\* wait follows it and nothing more is invoked, however many retries remain.
C18_NonTransientPropagates ==
    \A k \in 1..Len(retry.errors) :
        ~IsTransient(retry.errors[k]) =>
            /\ k = Len(retry.errors)
            /\ retry.pc = "thrown"
            /\ retry.calls = k
            /\ Len(retry.waits) = k - 1
            /\ k = 1 => retry.waits = <<>>

\* the first invocation failed with status 400 while 3 retries remained
C18_Witness ==
    /\ retry.pc = "thrown"
    /\ retry.retries = DefaultRetries
    /\ retry.calls = 1
    /\ retry.waits = <<>>
    /\ retry.errors = <<[status |-> 400, code |-> 0, overloaded |-> FALSE]>>

\* a non-transient error after a transient one, while 2 retries remained
C18_WitnessInner ==
    /\ retry.pc = "thrown"
    /\ retry.retries = 2
    /\ retry.calls = 2
    /\ ~IsTransient(retry.errors[2])

----------------------------------------------------------------------------
(* The object graph of the configs.  A config is an object that refers to    *)
(* its frameOffsets object and its excludedFrames array; createGroup stores  *)
(* the config object it is given, and CREATIVE_3x3_CONFIG, a shallow copy of *)
(* INITIAL_CONFIG, refers to the same two inner objects.  Groups are         *)
(* numbered in creation order.                                               *)

\* the addresses of the two module-level config objects
INITIAL_CONFIG == 1
CREATIVE_3x3_CONFIG == 2

\* frame indices the edits of the object graph are explored with
ShareIndices == {0, 1}
\* number of edit handlers run in one behaviour of SpecShare
MaxGroupEdits == 2

\* a config object: cfg's own fields and the addresses of its two inner objects
ConfigObject(cfg, offsetsAddr, excludedAddr) ==
    [rows |-> cfg.rows, cols |-> cfg.cols, totalFrames |-> cfg.totalFrames,
     fps |-> cfg.fps, autoTransparent |-> cfg.autoTransparent,
     direction |-> cfg.direction,
     frameOffsets |-> offsetsAddr, excludedFrames |-> excludedAddr]

\* the objects that exist once the module is loaded
ModuleHeap ==
    [configs |-> <<ConfigObject(NewConfig(DefaultRows, DefaultCols), 1, 1),
                   ConfigObject(NewConfig(InterpolationRows, InterpolationCols), 1, 1)>>,
     offsets |-> <<NoOffsets>>,
     excluded |-> << <<>> >>]

\* the SpriteConfig value read through the config object at address a
Deref(h, a) ==
    [rows |-> h.configs[a].rows, cols |-> h.configs[a].cols,
     totalFrames |-> h.configs[a].totalFrames, fps |-> h.configs[a].fps,
     autoTransparent |-> h.configs[a].autoTransparent,
     direction |-> h.configs[a].direction,
     frameOffsets |-> h.offsets[h.configs[a].frameOffsets],
     excludedFrames |-> h.excluded[h.configs[a].excludedFrames]]

\* groups[g].config as the components read it
ConfigValue(h, cof, g) == Deref(h, cof[g])

NewOffsetsObjectInPlace(h, a, m) ==
    [heap |-> [h EXCEPT !.offsets[a] = m], addr |-> a]

\* { ...config.frameOffsets, ... }: a new object holding m; the object at a is only read
NewOffsetsObject(h, a, m) ==
    [heap |-> [h EXCEPT !.offsets = Append(@, m)], addr |-> Len(h.offsets) + 1]

\* filter(...) / [...currentExcluded, index]: a new array holding items
NewExcludedArray(h, a, items) ==
    [heap |-> [h EXCEPT !.excluded = Append(@, items)], addr |-> Len(h.excluded) + 1]

\* updateGroupConfig(g, { ...currentConfig, ... }): a new config object for group g
StoreConfig(h, g, obj, name, index) ==
    /\ heap' = [h EXCEPT !.configs = Append(@, obj)]
    /\ configOf' = [configOf EXCEPT ![g] = Len(h.configs) + 1]
    /\ edits' = edits + 1
    /\ lastOp' = <<name, g, index, 0>>
    /\ UNCHANGED <<config, nudged, currentFrameIndex, drawn, time, gif, probe,
                   appVars, retry, uiVars>>

\* an edit handler may run on an existing group
Editable(g) ==
    /\ g \in 1..Len(configOf)
    /\ edits < MaxGroupEdits

InitShare ==
    /\ heap = ModuleHeap
    /\ configOf = <<>>
    /\ config = NewConfig(1, 1)
    /\ lastOp = <<"init", 0, 0, 0>>
    /\ nudged = NoOffsets
    /\ edits = 0
    /\ currentFrameIndex = 0
    /\ drawn = <<>>
    /\ time = 0
    /\ gif = IdleGif
    /\ probe = NoProbe
    /\ AppIdle
    /\ retry = IdleRetry
    /\ selectedGroupId = 0
    /\ rendered = NoRender
    /\ animation = NoAnimation

\* createGroup(..., CREATIVE_3x3_CONFIG, ...) / createGroup(..., INITIAL_CONFIG, ...)
CreateGroupShared(a) ==
    /\ Len(configOf) < Cardinality(GroupIdSet)
    /\ configOf' = Append(configOf, a)
    /\ lastOp' = <<"create", Len(configOf) + 1, a, 0>>
    /\ UNCHANGED <<heap, frameVars, appVars, retry, uiVars>>

\* createGroup(..., { ...INITIAL_CONFIG, scale: 1 }): a shallow copy
CreateGroupSpread ==
    /\ Len(configOf) < Cardinality(GroupIdSet)
    /\ heap' = [heap EXCEPT !.configs = Append(@, heap.configs[INITIAL_CONFIG])]
    /\ configOf' = Append(configOf, Len(heap.configs) + 1)
    /\ lastOp' = <<"create", Len(configOf) + 1, 0, 0>>
    /\ UNCHANGED <<frameVars, appVars, retry, uiVars>>

\* SplitFrameEditor.handleNudge, then updateConfigFromEditor(g, 'frameOffsets', newOffsets)
GroupNudge(g, index, dx, dy) ==
    /\ Editable(g)
    /\ LET obj == heap.configs[configOf[g]]
           new == NewOffsetsObject(heap, obj.frameOffsets,
                                   NudgeOffsets(ConfigValue(heap, configOf, g), index, dx, dy))
       IN StoreConfig(new.heap, g, [obj EXCEPT !.frameOffsets = new.addr], "nudge", index)

\* SplitFrameEditor.handleResetOffset, then updateConfigFromEditor
GroupResetOffset(g, index) ==
    /\ Editable(g)
    /\ LET obj == heap.configs[configOf[g]]
           new == NewOffsetsObject(heap, obj.frameOffsets,
                                   ResetOffsets(ConfigValue(heap, configOf, g), index))
       IN StoreConfig(new.heap, g, [obj EXCEPT !.frameOffsets = new.addr], "reset", index)

\* SplitFrameEditor.toggleExclusion, then updateConfigFromEditor
GroupToggleExclusion(g, index) ==
    /\ Editable(g)
    /\ LET obj == heap.configs[configOf[g]]
           new == NewExcludedArray(heap, obj.excludedFrames,
                      ToggleExcluded(ConfigValue(heap, configOf, g).excludedFrames, index))
       IN StoreConfig(new.heap, g, [obj EXCEPT !.excludedFrames = new.addr], "toggle", index)

\* handleGridUpdate(g, newRows, newCols)
GroupGridUpdate(g, newRows, newCols) ==
    /\ Editable(g)
    /\ LET obj == heap.configs[configOf[g]]
       IN StoreConfig(heap, g, [obj EXCEPT !.rows = newRows, !.cols = newCols,
                                           !.totalFrames = newRows * newCols],
                      "grid", newRows)

\* updateConfigFromEditor(g, key, value) for key fps, direction or totalFrames
GroupSetField(g, key, value) ==
    /\ Editable(g)
    /\ LET obj == heap.configs[configOf[g]]
       IN StoreConfig(heap, g,
                      CASE key = "fps" -> [obj EXCEPT !.fps = value]
                        [] key = "direction" -> [obj EXCEPT !.direction = value]
                        [] key = "totalFrames" -> [obj EXCEPT !.totalFrames = value],
                      key, 0)

NextShare ==
    \/ \E a \in {INITIAL_CONFIG, CREATIVE_3x3_CONFIG} : CreateGroupShared(a)
    \/ CreateGroupSpread
    \/ \E g \in GroupIdSet, index \in ShareIndices : GroupNudge(g, index, 1, 0)
    \/ \E g \in GroupIdSet, index \in ShareIndices : GroupResetOffset(g, index)
    \/ \E g \in GroupIdSet, index \in ShareIndices : GroupToggleExclusion(g, index)
    \/ \E g \in GroupIdSet, newRows \in GridDims :
           GroupGridUpdate(g, newRows, heap.configs[configOf[g]].cols)
    \/ \E g \in GroupIdSet : GroupSetField(g, "fps", 24)
    \/ \E g \in GroupIdSet : GroupSetField(g, "direction", "column")
    \/ \E g \in GroupIdSet : GroupSetField(g, "totalFrames", 1)

SpecShare == InitShare /\ [][NextShare]_vars

\* C20: a handler that runs for group lastOp'[2] leaves the config, the offset
\* map and the excluded list of every other group as they were, and leaves
\* what INITIAL_CONFIG and CREATIVE_3x3_CONFIG hold as it was, so that groups
\* created from the same shared objects stay independent.
C20_GroupsNeverShareState ==
    [][/\ \A h \in 1..Len(configOf) :
             h # lastOp'[2] => ConfigValue(heap', configOf', h) = ConfigValue(heap, configOf, h)
       /\ Deref(heap', INITIAL_CONFIG) = Deref(heap, INITIAL_CONFIG)
       /\ Deref(heap', CREATIVE_3x3_CONFIG) = Deref(heap, CREATIVE_3x3_CONFIG)]_vars

\* two groups were created from the one CREATIVE_3x3_CONFIG object; group 1 has
\* been nudged since, group 2 still is that object and still reads as unedited
C20_Witness ==
    /\ Len(configOf) = 2
    /\ lastOp[1] = "nudge" /\ lastOp[2] = 1
    /\ configOf[2] = CREATIVE_3x3_CONFIG
    /\ heap.configs[configOf[1]].rows = InterpolationRows
    /\ ConfigValue(heap, configOf, 1).frameOffsets # NoOffsets
    /\ ConfigValue(heap, configOf, 2) = NewConfig(InterpolationRows, InterpolationCols)

\* a group made from INITIAL_CONFIG itself and one made from CREATIVE_3x3_CONFIG,
\* which refer to the same excludedFrames array until one of them is edited
C20_WitnessExcluded ==
    /\ Len(configOf) = 2
    /\ lastOp[1] = "toggle" /\ lastOp[2] = 2
    /\ configOf[1] = INITIAL_CONFIG
    /\ ConfigValue(heap, configOf, 2).excludedFrames # <<>>
    /\ ConfigValue(heap, configOf, 1) = NewConfig(DefaultRows, DefaultCols)

----------------------------------------------------------------------------
(* The group store as React keeps it.  groups and selectedGroupId hold the   *)
(* state with every update issued so far applied in order; rendered is the   *)
(* state of the last render, which is what the handlers of that render read  *)
(* (their closure).  A click or input event is followed by its render before *)
(* the next event; an update issued by a callback (img.onload, the           *)
(* continuation of an await) is rendered by a later task, and an event may   *)
(* come first.                                                               *)

\* img.onload of an upload or of a generated sheet: createGroup(...)
GroupCreated(cfg) ==
    /\ Len(groups) < Cardinality(GroupIdSet)
    /\ uuids < Cardinality(GroupIdSet) + 1
    /\ groups' = CreateGroupIn(groups, uuids + 1, cfg)
    /\ selectedGroupId' = uuids + 1
    /\ uuids' = uuids + 1
    /\ lastOp' = <<"create", uuids + 1, 0, 0>>
    /\ UNCHANGED <<processingState, savedAssets, runs, batch, timers, service>>
    /\ UNCHANGED <<frameVars, retry, shareVars, rendered, animation>>

\* React renders the updates issued by callbacks
Render ==
    /\ rendered # [groups |-> groups, selectedGroupId |-> selectedGroupId]
    /\ rendered' = [groups |-> groups, selectedGroupId |-> selectedGroupId]
    /\ UNCHANGED <<lastOp, frameVars, appVars, retry, shareVars, selectedGroupId, animation>>

\* onSelectGroup / handleNodeMouseDown: setSelectedGroupId(groupId)
SelectGroup(g) ==
    /\ g \in GroupIds(rendered.groups)
    /\ selectedGroupId' = g
    /\ rendered' = [groups |-> groups, selectedGroupId |-> g]
    /\ lastOp' = <<"select", g, 0, 0>>
    /\ UNCHANGED <<frameVars, appVars, retry, shareVars, animation>>

\* deleteGroup(g): setGroups(newGroups) with newGroups made from the groups of
\* the closure; the selection is cleared when the closure's selection is g
DeleteGroupClicked(g) ==
    /\ g \in GroupIds(rendered.groups)
    /\ groups' = DeleteGroupIn(rendered.groups, g)
    /\ selectedGroupId' = IF rendered.selectedGroupId = g THEN 0 ELSE selectedGroupId
    /\ rendered' = [groups |-> groups', selectedGroupId |-> selectedGroupId']
    /\ lastOp' = <<"delete", g, 0, 0>>
    /\ UNCHANGED <<processingState, savedAssets, runs, batch, timers, service, uuids>>
    /\ UNCHANGED <<frameVars, retry, shareVars, animation>>

\* a rows or cols input: the sidebar passes parseInt(value) || 1 for the selected
\* group, the table view Math.max(1, valueAsNumber || 1), the inline editor's
\* GRID input valueAsNumber as it is; each reaches handleGridUpdate
GridInput(surface, g, axis, v) ==
    /\ edits < MaxGroupEdits
    /\ g \in GroupIds(rendered.groups)
    /\ surface = "sidebar" => g = rendered.selectedGroupId
    /\ LET cfg == GroupById(rendered.groups, g).config
           value == CASE surface = "sidebar" -> IF v = 0 THEN 1 ELSE v
                      [] surface = "table" -> IF v < 1 THEN 1 ELSE v
                      [] surface = "inline" -> v
           newRows == IF axis = "rows" THEN value ELSE cfg.rows
           newCols == IF axis = "cols" THEN value ELSE cfg.cols
       IN  /\ groups' = UpdateGroupConfigIn(groups, g, GridUpdated(cfg, newRows, newCols))
           /\ lastOp' = <<"grid", g, newRows, newCols>>
    /\ rendered' = [groups |-> groups', selectedGroupId |-> selectedGroupId]
    /\ edits' = edits + 1
    /\ UNCHANGED <<processingState, savedAssets, runs, batch, timers, service, uuids>>
    /\ UNCHANGED <<config, nudged, currentFrameIndex, drawn, time, gif, probe>>
    /\ UNCHANGED <<retry, shareVars, selectedGroupId, animation>>

\* updateConfigFromEditor(g, key, value): { ...currentConfig, [key]: value } with
\* the value the inline editor's nudge or exclusion handler, or the sidebar's
\* Frames slider (min 1, max rows * cols), made from the config of the closure
EditField(g, key, arg) ==
    /\ edits < MaxGroupEdits
    /\ g \in GroupIds(rendered.groups)
    /\ LET cfg == GroupById(rendered.groups, g).config
       IN  /\ key \in {"nudge", "toggle"} => (arg = 0 /\ arg < cfg.totalFrames)
           /\ key = "frames" =>
                 /\ g = rendered.selectedGroupId
                 /\ arg >= 1
                 /\ arg <= (IF cfg.rows = 0 THEN 1 ELSE cfg.rows)
                             * (IF cfg.cols = 0 THEN 1 ELSE cfg.cols)
           /\ groups' = UpdateGroupConfigIn(groups, g,
                 CASE key = "nudge" ->
                        [cfg EXCEPT !.frameOffsets = NudgeOffsets(cfg, arg, 1, 0)]
                   [] key = "toggle" ->
                        [cfg EXCEPT !.excludedFrames = ToggleExcluded(cfg.excludedFrames, arg)]
                   [] key = "frames" -> [cfg EXCEPT !.totalFrames = arg])
    /\ lastOp' = <<key, g, arg, 0>>
    /\ rendered' = [groups |-> groups', selectedGroupId |-> selectedGroupId]
    /\ edits' = edits + 1
    /\ UNCHANGED <<processingState, savedAssets, runs, batch, timers, service, uuids>>
    /\ UNCHANGED <<config, nudged, currentFrameIndex, drawn, time, gif, probe>>
    /\ UNCHANGED <<retry, shareVars, selectedGroupId, animation>>

\* handleAutoDetect up to its await: group and handleGridUpdate are those of the
\* render in which the button was clicked
AutoDetectClicked ==
    /\ edits < MaxGroupEdits
    /\ service.pc = "idle"
    /\ rendered.selectedGroupId \in GroupIds(rendered.groups)
    /\ service' = [pc |-> "pending", kind |-> "detect",
                   captured |-> <<GroupById(rendered.groups, rendered.selectedGroupId)>>]
    /\ processingState' = [status |-> "analyzing", progress |-> <<0, 1>>, error |-> ""]
    /\ rendered' = [groups |-> groups, selectedGroupId |-> selectedGroupId]
    /\ lastOp' = <<"detect", rendered.selectedGroupId, 0, 0>>
    /\ UNCHANGED <<groups, savedAssets, runs, batch, timers, uuids>>
    /\ UNCHANGED <<frameVars, retry, shareVars, selectedGroupId, animation>>

\* analyzeSpriteSheet resolves: handleGridUpdate(selectedGroupId, result.rows ??
\* group.config.rows, result.cols ?? group.config.cols) in the captured closure,
\* whose groups hold the group, then the status is reset
DetectResolved(rows, cols) ==
    /\ service.pc = "pending"
    /\ service.kind = "detect"
    /\ groups' = UpdateGroupConfigIn(groups, service.captured[1].id,
                     GridUpdated(service.captured[1].config, rows, cols))
    /\ lastOp' = <<"grid", service.captured[1].id, rows, cols>>
    /\ service' = IdleService
    /\ processingState' = IdleState
    /\ edits' = edits + 1
    /\ UNCHANGED <<savedAssets, runs, batch, timers, uuids>>
    /\ UNCHANGED <<config, nudged, currentFrameIndex, drawn, time, gif, probe>>
    /\ UNCHANGED <<retry, shareVars, uiVars>>

NextStore ==
    \/ GroupCreated(NewConfig(DefaultRows, DefaultCols))
    \/ Render
    \/ \E g \in 1..(Cardinality(GroupIdSet) + 1) : SelectGroup(g)
    \/ \E g \in 1..(Cardinality(GroupIdSet) + 1) : DeleteGroupClicked(g)
    \/ \E surface \in {"sidebar", "table", "inline"}, g \in 1..(Cardinality(GroupIdSet) + 1),
          axis \in {"rows", "cols"}, v \in {0, 2} : GridInput(surface, g, axis, v)
    \/ \E g \in 1..(Cardinality(GroupIdSet) + 1), key \in {"nudge", "toggle", "frames"},
          arg \in {0, 1} : EditField(g, key, arg)
    \/ AutoDetectClicked
    \/ DetectResolved(2, 2)
    \/ ServiceFails

SpecStore == InitApp /\ [][NextStore]_vars

\* C21: after a rows or cols edit of group g, from an input of any surface or
\* from auto-detection, the state that has the new rows and cols has
\* totalFrames = rows * cols for g.
C21_GridEditSetsTotalFrames ==
    [][lastOp'[1] = "grid" =>
          LET cfg == GroupById(groups', lastOp'[2]).config
          IN  /\ lastOp'[2] \in GroupIds(groups')
              /\ cfg.rows = lastOp'[3]
              /\ cfg.cols = lastOp'[4]
              /\ cfg.totalFrames = cfg.rows * cfg.cols]_vars

\* a grid edit came after the Frames slider had lowered totalFrames and after a
\* nudge: the group has the new dimensions and totalFrames is their product
C21_Witness ==
    /\ lastOp[1] = "grid"
    /\ lastOp[2] \in GroupIds(groups)
    /\ LET cfg == GroupById(groups, lastOp[2]).config
       IN  /\ cfg.rows = 2
           /\ cfg.cols = DefaultCols
           /\ cfg.totalFrames = 2 * DefaultCols
           /\ cfg.frameOffsets # NoOffsets

\* C22: every group's config has rows >= 1 and cols >= 1.
C22_RowsColsPositive ==
    \A k \in 1..Len(groups) : groups[k].config.rows >= 1 /\ groups[k].config.cols >= 1

\* C23: every group's config has 0 <= totalFrames <= rows * cols.
C23_TotalFramesInRange ==
    \A k \in 1..Len(groups) :
        /\ groups[k].config.totalFrames >= 0
        /\ groups[k].config.totalFrames <= groups[k].config.rows * groups[k].config.cols

\* what holds of C23: the range is kept by every config whose rows and cols
\* are at least 1
C23_InRangeOnValidGrid ==
    \A k \in 1..Len(groups) :
        (groups[k].config.rows >= 1 /\ groups[k].config.cols >= 1) =>
            /\ groups[k].config.totalFrames >= 0
            /\ groups[k].config.totalFrames
                  <= groups[k].config.rows * groups[k].config.cols

\* C25: no mutation of a group is lost: a grid edit leaves the group's other
\* fields as the mutations before it left them, and a nudge, a toggle or a
\* frame-count edit leaves every field but its own so.
C25_NoMutationLost ==
    [][\A g \in GroupIds(groups) \cap GroupIds(groups') :
          LET old == GroupById(groups, g).config
              new == GroupById(groups', g).config
          IN  (lastOp'[2] = g /\ new # old) =>
                /\ lastOp'[1] = "grid" =>
                      [new EXCEPT !.rows = old.rows, !.cols = old.cols,
                                  !.totalFrames = old.totalFrames] = old
                /\ lastOp'[1] = "nudge" => [new EXCEPT !.frameOffsets = old.frameOffsets] = old
                /\ lastOp'[1] = "toggle" =>
                      [new EXCEPT !.excludedFrames = old.excludedFrames] = old
                /\ lastOp'[1] = "frames" => [new EXCEPT !.totalFrames = old.totalFrames] = old]_vars

\* what holds of C25: a mutation made by a handler whose closure is the current
\* state loses nothing
C25_NoLossFromCurrentRender ==
    [][\A g \in GroupIds(groups) \cap GroupIds(groups') :
          LET old == GroupById(groups, g).config
              new == GroupById(groups', g).config
          IN  (lastOp'[2] = g /\ new # old /\ rendered.groups = groups /\ service.pc = "idle") =>
                /\ lastOp'[1] = "grid" =>
                      [new EXCEPT !.rows = old.rows, !.cols = old.cols,
                                  !.totalFrames = old.totalFrames] = old
                /\ lastOp'[1] = "nudge" => [new EXCEPT !.frameOffsets = old.frameOffsets] = old
                /\ lastOp'[1] = "toggle" =>
                      [new EXCEPT !.excludedFrames = old.excludedFrames] = old
                /\ lastOp'[1] = "frames" => [new EXCEPT !.totalFrames = old.totalFrames] = old]_vars

\* C29: deleteGroup(g) removes group g only: every other group is still there
\* with its config.
C29_DeleteRemovesOnlyThatGroup ==
    [][lastOp'[1] = "delete" =>
          \A h \in GroupIds(groups) \ {lastOp'[2]} :
              /\ h \in GroupIds(groups')
              /\ GroupById(groups', h) = GroupById(groups, h)]_vars

\* what holds of C29: a deleteGroup whose closure is the current state removes
\* group g only
C29_DeleteFromCurrentRender ==
    [][(lastOp'[1] = "delete" /\ rendered.groups = groups) =>
          \A h \in GroupIds(groups) \ {lastOp'[2]} :
              /\ h \in GroupIds(groups')
              /\ GroupById(groups', h) = GroupById(groups, h)]_vars

\* C30: selectedGroupId is null or the id of a group that exists.
C30_SelectionExists ==
    selectedGroupId = 0 \/ selectedGroupId \in GroupIds(groups)

====
